---- MODULE Spec2Model ----
(***************************************************************************)
(* A model of the logic compiler of agi-tools (src/src/compile.ts): the    *)
(* directive loop of compile with its conditional stack and macro table,   *)
(* the directive expression evaluator, the statement parser, the code      *)
(* generator with its label patches, and the message table layout.         *)
(*                                                                         *)
(* Tokens are strings drawn from the finite alphabets below; the regular   *)
(* expressions of the source are modelled by the sets of alphabet tokens   *)
(* they match, and the literal decoders by their value on those tokens.    *)
(***************************************************************************)
EXTENDS Integers, Sequences, FiniteSets, TLC

VARIABLES
  pc,            \* where the invocation is: at work, "done", "error" or "hang"
  src,           \* the token lines as tokenize returned them (never changed)
  tokenLines,    \* compile: tokenLines, rewritten in place by the directive loop
  line_i,        \* compile: line_i, as a 1-based index of the line scanned next
  ifStack,       \* compile: ifStack
  simpleMacros,  \* compile: simpleMacros
  error,         \* the LineSyntaxError / Error thrown, NoError when none
  exprTokens,    \* the tokens handed to parseDirectiveExpression
  exprResult,    \* what parseDirectiveExpression returned or threw
  token_i,       \* the 1-based index, among the tokens of all lines, of the token
                 \* readTokens yields next
  statements,    \* compile: statements, as the parser left them
  stmt_i,        \* the 1-based index of the statement the emitting loop is at
  buf,           \* compile: buf
  labelPos,      \* compile: labelPos
  labelPromises, \* compile: labelPromises, the labels that have a pending promise
  labelListeners,\* compile: labelListeners, its keys in insertion order
  settled,       \* the promises resolved so far: label -> the number resolved with
  complete,      \* compile: complete, the patches chained on the promises
  bytecode,      \* the bytecode returned, NoBytecode while none is
  messages,      \* compile: messages
  messageNumbers,\* compile: messageNumbers
  wordNumbers,   \* compile: wordNumbers
  itemNumbers,   \* compile: itemNumbers
  nextFreeMessageNumber, \* compile: nextFreeMessageNumber
  messageOffsets,\* the messageOffsets returned
  messageBlock,  \* the messageBlock returned
  other,         \* a second invocation of compile, suspended at an await: its
                 \* pc, error, src, tokenLines, line_i, ifStack and simpleMacros
                 \* as it left them (pc "none" when there is no such invocation)
  sharedMacros,  \* the two invocations were passed the same Map as simpleMacros
  fnArgs,        \* a function of the module called on its own: its name and the
                 \* argument it is called with (fn "none" when there is no call)
  fnResult       \* what that call returned, once it has returned

ppVars == <<src, tokenLines, line_i, ifStack, simpleMacros>>
exprVars == <<exprTokens, exprResult>>
genVars == <<token_i, statements, stmt_i, buf, labelPos, labelPromises, labelListeners, settled,
             complete, bytecode>>
msgVars ==
  <<messages, messageNumbers, wordNumbers, itemNumbers, nextFreeMessageNumber,
    messageOffsets, messageBlock>>
callVars == <<other, sharedMacros, fnArgs, fnResult>>
vars == <<pc, error, ppVars, exprVars, genVars, msgVars, callVars>>

----------------------------------------------------------------------------
(* Bounds of the model. *)

\* longest source made of conditional directives and text lines
MaxCondLines == 5
\* longest source made of #define / #undef / #ifdef and text lines
MaxMacroLines == 3
\* integer literals 0..MaxLiteral appear in directive expressions
MaxLiteral == 2
\* longest program made of gotos, labels and simple statements
MaxGotoStatements == 4

----------------------------------------------------------------------------
(* Token classes. *)

\* the alphabet's tokens that match /^[a-z_]/i
KeywordTokens ==
  {"X", "Y", "a", "b", "defined", "include", "define", "undef", "pragma",
   "if", "ifdef", "ifndef", "elif", "else", "endif", "message", "word", "item",
   "v1", "v2", "v255", "f1", "f2", "w1", "m1", "return", "isset", "said", "hi",
   "print", "get", "increment", "sample", "set", "reset", "toggle"}

isKeywordToken(s) == s \in KeywordTokens

\* the alphabet's tokens that match /^\.?[0-9]/
NumberTokens ==
  {"0", "1", "2", "3", "4", "5", "6", "7", "8", "9", "010", "2147483647"}

isNumberToken(s) == s \in NumberTokens

\* the alphabet's tokens that begin with a single quote
CharLiteralTokens == {"'A'"}

isCharLiteralToken(s) == s \in CharLiteralTokens

decodeCharLiteral(s) == CASE s = "'A'" -> 65

\* JavaScript's unary plus on a number token: a leading zero does not make
\* the literal octal
NumberOfToken(s) ==
  CASE s = "0" -> 0 [] s = "1" -> 1 [] s = "2" -> 2 [] s = "3" -> 3
    [] s = "4" -> 4 [] s = "5" -> 5 [] s = "6" -> 6 [] s = "7" -> 7
    [] s = "8" -> 8 [] s = "9" -> 9 [] s = "010" -> 10
    [] s = "2147483647" -> 2147483647

LiteralToken(n) == <<"0", "1", "2", "3", "4", "5", "6", "7", "8", "9">>[n + 1]

----------------------------------------------------------------------------
(* 32-bit integer arithmetic of JavaScript's bitwise operators.            *)

MaxInt32 == 2147483647
MinInt32 == -MaxInt32 - 1

\* x | 0
ToInt32(x) ==
  IF MinInt32 <= x /\ x <= MaxInt32
    THEN x
    ELSE ((x - MinInt32) % (2 * (MaxInt32 + 1))) + MinInt32

\* (a + b) | 0 on 32-bit operands, without leaving the 32-bit range
AddInt32(a, b) ==
  IF a >= 0 /\ b >= 0 /\ a > MaxInt32 - b THEN (a + MinInt32) + (b + MinInt32)
  ELSE IF a < 0 /\ b < 0 /\ a < MinInt32 - b THEN (a - MinInt32) + (b - MinInt32)
  ELSE a + b

\* (~b) on a 32-bit operand
BitNot32(b) == -1 - b

\* (a - b) | 0 on 32-bit operands
SubInt32(a, b) == AddInt32(AddInt32(a, BitNot32(b)), 1)

RECURSIVE TwoTo(_)
TwoTo(k) == IF k = 0 THEN 1 ELSE 2 * TwoTo(k - 1)

\* (a << k) on a 32-bit operand, k in 0..31: the low 31 - k bits of a moved
\* up k places, under bit 31 - k of a as the sign
ShiftLeft32(a, k) ==
  IF k = 0 THEN a
  ELSE (IF (a \div TwoTo(31 - k)) % 2 = 1 THEN MinInt32 ELSE 0)
         + ((a % TwoTo(31 - k)) * TwoTo(k - 1)) * 2

\* (a >> k) on a 32-bit operand, k in 0..31
ShiftRight32(a, k) ==
  IF k = 31 THEN (IF a < 0 THEN -1 ELSE 0) ELSE a \div TwoTo(k)

\* the 32-bit integer of the 16-bit halves high and low
FromHalves(high, low) ==
  (IF high % 65536 >= 32768 THEN (high % 65536) - 65536 ELSE high % 65536) * 65536
    + low

\* Math.imul(a, b): the low 32 bits of the product, from the products of the
\* operands' 16-bit halves and of the low half of a with the bytes of the
\* low half of b
Imul(a, b) ==
  LET al == a % 65536
      ah == a \div 65536
      bl == b % 65536
      bh == b \div 65536
      cross == (((ah * bl) % 65536) + ((al * bh) % 65536)) % 65536
      p1 == al * (bl \div 256)
      p0 == al * (bl % 256)
      lowSum == p0 + 256 * (p1 % 256)
  IN FromHalves((lowSum \div 65536) + (p1 \div 256) + cross, lowSum % 65536)

BitAnd(x, y) == IF x = 1 /\ y = 1 THEN 1 ELSE 0
BitOr(x, y) == IF x = 1 \/ y = 1 THEN 1 ELSE 0
BitXor(x, y) == IF x # y THEN 1 ELSE 0

\* a bitwise operator on two's-complement operands, bit by bit
RECURSIVE Bitwise32(_, _, _)
Bitwise32(op, a, b) ==
  LET bit == CASE op = "&" -> BitAnd(a % 2, b % 2)
               [] op = "|" -> BitOr(a % 2, b % 2)
               [] op = "^" -> BitXor(a % 2, b % 2)
  IN IF a \in {0, -1} /\ b \in {0, -1}
       THEN -bit
       ELSE bit + 2 * Bitwise32(op, a \div 2, b \div 2)

Abs(x) == IF x < 0 THEN -x ELSE x

\* (a / b) | 0: the quotient truncated toward zero, 0 when b is 0
TruncDiv(a, b) ==
  IF b = 0 THEN 0
  ELSE IF a = MinInt32 /\ b = -1 THEN MinInt32
  ELSE IF b = MinInt32 THEN (IF a = MinInt32 THEN 1 ELSE 0)
  ELSE LET q == a \div Abs(b)
           t == IF q < 0 /\ a % Abs(b) # 0 THEN q + 1 ELSE q
       IN IF b < 0 THEN -t ELSE t

\* (a % b) | 0: the remainder has the sign of a, 0 when b is 0
TruncRem(a, b) ==
  IF b = 0 THEN 0
  ELSE IF b = MinInt32 THEN (IF a = MinInt32 THEN 0 ELSE a)
  ELSE LET r == a % Abs(b)
       IN IF r # 0 /\ a < 0 THEN r - Abs(b) ELSE r

----------------------------------------------------------------------------
(* The macro table: a function from the defined names to their replacement *)
(* tokens.                                                                 *)

NoMacros == <<>>

MacroHas(macros, name) == name \in DOMAIN macros

MacroSet(macros, name, tokens) == (name :> tokens) @@ macros

MacroDelete(macros, name) == [n \in DOMAIN macros \ {name} |-> macros[n]]

RECURSIVE Power(_, _)
Power(b, e) == IF e = 0 THEN 1 ELSE b * Power(b, e - 1)

SetMax(S) == IF S = {} THEN 0 ELSE CHOOSE x \in S : \A y \in S : y <= x

\* A substitution loop that ends replaces each of the tokens by a tree of
\* replacements in which no branch repeats a macro, so it makes fewer than
\* this many substitutions; a loop that makes more never ends.
SubstitutionLimit(macros, tokens) ==
  (Len(tokens) + 1)
    * Power(SetMax({Len(macros[n]) : n \in DOMAIN macros}) + 1,
            Cardinality(DOMAIN macros))

----------------------------------------------------------------------------
(* parseDirectiveExpression.  A reader is the sequence of tokens not yet   *)
(* read: PushbackIterator.next takes its head, pushback.unshift prepends.  *)
(* Each function returns the value with the tokens it left, or the message *)
(* of the error it threw.                                                  *)

OP_PRECEDENCE ==
  [op \in {"?", "||", "&&", "|", "^", "&", "==", "!=", "<", "<=", ">", ">=",
           "<<", ">>", "+", "-", "*", "/", "%"} |->
     CASE op = "?" -> 0
       [] op = "||" -> 1
       [] op = "&&" -> 2
       [] op = "|" -> 3
       [] op = "^" -> 4
       [] op = "&" -> 5
       [] op \in {"==", "!="} -> 6
       [] op \in {"<", "<=", ">", ">="} -> 7
       [] op \in {"<<", ">>"} -> 8
       [] op \in {"+", "-"} -> 9
       [] op \in {"*", "/", "%"} -> 10]

\* A number the evaluator computes is a 32-bit integer or 2^31, the negation
\* of -2^31: every other operation ends in | 0, in a bitwise operator or in
\* a 0 or 1.  It is held as v, its 32-bit value (x | 0), and over, TRUE
\* where the number is 2^31 (v is then -2^31).
Int32Number(n) == [v |-> n, over |-> FALSE]
Pow31 == [v |-> MinInt32, over |-> TRUE]

Value(n, tokens) ==
  [ok |-> TRUE, v |-> n, over |-> FALSE, rest |-> tokens, msg |-> ""]
Thrown(message) ==
  [ok |-> FALSE, v |-> 0, over |-> FALSE, rest |-> <<>>, msg |-> message]

\* the number a result holds, and the result that holds a number
NumberOf(r) == [v |-> r.v, over |-> r.over]
ValueOfNumber(x, tokens) ==
  [ok |-> TRUE, v |-> x.v, over |-> x.over, rest |-> tokens, msg |-> ""]

\* the while loop at the head of readAtom: a macro name read is replaced by
\* its tokens, pushed back to be read next
RECURSIVE readAtomMacros(_, _, _)
readAtomMacros(macros, tokens, fuel) ==
  IF tokens # <<>> /\ isKeywordToken(Head(tokens)) /\ MacroHas(macros, Head(tokens))
    THEN IF fuel = 0
           THEN [hang |-> TRUE, tokens |-> tokens]
           ELSE readAtomMacros(macros, macros[Head(tokens)] \o Tail(tokens), fuel - 1)
    ELSE [hang |-> FALSE, tokens |-> tokens]

\* the binary operators of extendExpression, on the numbers read
LogicalAnd(expr, rhs) == IF expr # 0 THEN rhs ELSE expr

LogicalOr(expr, rhs) == IF expr = 0 THEN rhs ELSE expr

ShiftCount(rhs) == ToInt32(rhs) % 32

ApplyBinary(op, expr, rhs) ==
  CASE op = "==" -> IF expr = rhs THEN 1 ELSE 0
    [] op = "!=" -> IF expr # rhs THEN 1 ELSE 0
    [] op = ">" -> IF expr > rhs THEN 1 ELSE 0
    [] op = ">=" -> IF expr >= rhs THEN 1 ELSE 0
    [] op = "<" -> IF expr < rhs THEN 1 ELSE 0
    [] op = "<=" -> IF expr <= rhs THEN 1 ELSE 0
    [] op = "+" -> AddInt32(ToInt32(expr), ToInt32(rhs))
    [] op = "-" -> SubInt32(ToInt32(expr), ToInt32(rhs))
    [] op = "*" -> Imul(ToInt32(expr), ToInt32(rhs))
    [] op = "/" -> TruncDiv(expr, rhs)
    [] op = "%" -> TruncRem(expr, rhs)
    [] op = "^" -> Bitwise32("^", ToInt32(expr), ToInt32(rhs))
    [] op = "&" -> Bitwise32("&", ToInt32(expr), ToInt32(rhs))
    [] op = "|" -> Bitwise32("|", ToInt32(expr), ToInt32(rhs))
    [] op = "<<" -> ShiftLeft32(ToInt32(expr), ShiftCount(rhs))
    [] op = ">>" -> ShiftRight32(ToInt32(expr), ShiftCount(rhs))
    [] op = "&&" -> LogicalAnd(expr, rhs)
    [] op = "||" -> LogicalOr(expr, rhs)

\* -x
Negate(x) ==
  IF x.over THEN Int32Number(MinInt32)
  ELSE IF x.v = MinInt32 THEN Pow31
  ELSE Int32Number(-x.v)

\* the order of two numbers: -1, 0 or 1
CompareNumbers(l, r) ==
  IF l.over /\ r.over THEN 0
  ELSE IF l.over THEN 1
  ELSE IF r.over THEN -1
  ELSE IF l.v < r.v THEN -1 ELSE IF l.v = r.v THEN 0 ELSE 1

\* (l / r) | 0 where l or r is 2^31
DivideOver(l, r) ==
  IF l.over THEN
    IF r.over THEN 1
    ELSE IF r.v = 0 THEN 0
    ELSE IF r.v \in {1, -1} THEN MinInt32
    ELSE -TruncDiv(MinInt32, r.v)
  ELSE IF l.v = MinInt32 THEN -1 ELSE 0

\* (l % r) | 0 where l or r is 2^31
RemainderOver(l, r) ==
  IF l.over THEN
    IF r.over \/ r.v = 0 THEN 0 ELSE -TruncRem(MinInt32, r.v)
  ELSE IF l.v = MinInt32 THEN 0 ELSE l.v

\* the binary operators of extendExpression on two numbers: the comparisons,
\* / and % work on the numbers themselves, && and || hand an operand on, and
\* the others on the operands' 32-bit values
ApplyNumbers(op, l, r) ==
  IF ~l.over /\ ~r.over /\ op \notin {"&&", "||"}
    THEN Int32Number(ApplyBinary(op, l.v, r.v))
  ELSE CASE op = "==" -> Int32Number(IF CompareNumbers(l, r) = 0 THEN 1 ELSE 0)
         [] op = "!=" -> Int32Number(IF CompareNumbers(l, r) # 0 THEN 1 ELSE 0)
         [] op = ">" -> Int32Number(IF CompareNumbers(l, r) > 0 THEN 1 ELSE 0)
         [] op = ">=" -> Int32Number(IF CompareNumbers(l, r) >= 0 THEN 1 ELSE 0)
         [] op = "<" -> Int32Number(IF CompareNumbers(l, r) < 0 THEN 1 ELSE 0)
         [] op = "<=" -> Int32Number(IF CompareNumbers(l, r) <= 0 THEN 1 ELSE 0)
         [] op = "/" -> Int32Number(DivideOver(l, r))
         [] op = "%" -> Int32Number(RemainderOver(l, r))
         [] op = "&&" -> IF l.v # 0 THEN r ELSE l
         [] op = "||" -> IF l.v = 0 THEN r ELSE l
         [] OTHER -> Int32Number(ApplyBinary(op, l.v, r.v))

RECURSIVE dirReadAtom(_, _)
RECURSIVE dirExtendExpression(_, _, _, _)
RECURSIVE dirReadExpression(_, _, _)

\* readAtom, case '(': the token after the expression read must be ')'
dirCloseParenthesis(expr) ==
  IF ~expr.ok THEN expr
  ELSE IF expr.rest = <<>> THEN Thrown("unexpected end of expression")
  ELSE IF Head(expr.rest) # ")" THEN Thrown("unexpected content")
  ELSE ValueOfNumber(NumberOf(expr), Tail(expr.rest))

\* readAtom, case '!', '+', '-', '~', on the atom read after the operator
dirApplyUnary(op, atom) ==
  IF ~atom.ok THEN atom
  ELSE ValueOfNumber(
         CASE op = "!" -> Int32Number(IF atom.v # 0 THEN 0 ELSE 1)
           [] op = "+" -> NumberOf(atom)
           [] op = "-" -> Negate(NumberOf(atom))
           [] op = "~" -> Int32Number(BitNot32(ToInt32(atom.v))),
         atom.rest)

\* readAtom, defined ( name ): inner holds the tokens after the '('
dirDefined(macros, inner) ==
  IF inner = <<>> \/ ~isKeywordToken(Head(inner))
    THEN Thrown("invalid content in defined()")
  ELSE IF Tail(inner) = <<>> \/ Head(Tail(inner)) # ")"
    THEN Thrown("invalid content in defined()")
  ELSE Value(IF MacroHas(macros, Head(inner)) THEN 1 ELSE 0, Tail(Tail(inner)))

\* readAtom once the macro loop has ended on the token step
dirAtomOfToken(macros, step, rest) ==
  CASE step = "(" -> dirCloseParenthesis(dirReadExpression(macros, rest, 0))
    [] step \in {"!", "+", "-", "~"} -> dirApplyUnary(step, dirReadAtom(macros, rest))
    [] OTHER ->
         IF isKeywordToken(step) THEN
           IF step = "defined" /\ rest # <<>> /\ Head(rest) = "("
             THEN dirDefined(macros, Tail(rest))
             ELSE Value(0, rest)
         ELSE IF isNumberToken(step) THEN Value(ToInt32(NumberOfToken(step)), rest)
         ELSE IF isCharLiteralToken(step) THEN Value(decodeCharLiteral(step), rest)
         ELSE Thrown("unexpected content in expression")

dirAtomAfterMacros(macros, looped) ==
  IF looped.hang THEN Thrown("hang")
  ELSE IF looped.tokens = <<>> THEN Thrown("unexpected end of expression")
  ELSE dirAtomOfToken(macros, Head(looped.tokens), Tail(looped.tokens))

dirReadAtom(macros, tokens) ==
  dirAtomAfterMacros(macros,
    readAtomMacros(macros, tokens, SubstitutionLimit(macros, tokens)))

\* extendExpression after the right operand of the binary operator op is read
dirAfterOperand(macros, op, expr, level, rhs) ==
  IF ~rhs.ok THEN rhs
  ELSE dirExtendExpression(macros, ApplyNumbers(op, expr, NumberOf(rhs)),
                           level, rhs.rest)

\* extendExpression, case '?', after the value following the ':' is read
dirAfterElseValue(macros, expr, level, thenV, elseValue) ==
  IF ~elseValue.ok THEN elseValue
  ELSE dirExtendExpression(macros,
                           IF expr.v # 0 THEN thenV ELSE NumberOf(elseValue),
                           level, elseValue.rest)

\* extendExpression, case '?', after the value following the '?' is read
dirAfterThenValue(macros, expr, level, thenValue) ==
  IF ~thenValue.ok THEN thenValue
  ELSE IF thenValue.rest = <<>> THEN Thrown("unexpected end of expression")
  ELSE IF Head(thenValue.rest) # ":" THEN Thrown("unexpected content")
  ELSE dirAfterElseValue(macros, expr, level, NumberOf(thenValue),
         dirReadExpression(macros, Tail(thenValue.rest), OP_PRECEDENCE["?"]))

dirExtendExpression(macros, expr, level, tokens) ==
  IF tokens = <<>> THEN ValueOfNumber(expr, <<>>)
  ELSE IF Head(tokens) \notin DOMAIN OP_PRECEDENCE
          \/ OP_PRECEDENCE[Head(tokens)] < level
    THEN ValueOfNumber(expr, tokens)
  ELSE IF Head(tokens) = "?"
    THEN dirAfterThenValue(macros, expr, level,
           dirReadExpression(macros, Tail(tokens), 0))
  ELSE dirAfterOperand(macros, Head(tokens), expr, level,
         dirReadExpression(macros, Tail(tokens), OP_PRECEDENCE[Head(tokens)] + 1))

dirAfterAtom(macros, atom, level) ==
  IF ~atom.ok THEN atom
  ELSE dirExtendExpression(macros, NumberOf(atom), level, atom.rest)

dirReadExpression(macros, tokens, level) ==
  dirAfterAtom(macros, dirReadAtom(macros, tokens), level)

\* the end of parseDirectiveExpression: no token may be left
dirWholeExpression(expr) ==
  IF ~expr.ok THEN expr
  ELSE IF expr.rest # <<>> THEN Thrown("unexpected content in expression")
  ELSE expr

parseDirectiveExpression(macros, tokens) ==
  dirWholeExpression(dirReadExpression(macros, tokens, 0))

----------------------------------------------------------------------------
(* The directive loop of compile.                                          *)

NoLine == [fileName |-> "", lineNumber |-> 0]
NoError == [fileName |-> "", lineNumber |-> 0, message |-> ""]

\* new LineSyntaxError(line, message)
LineSyntaxError(line, message) ==
  [fileName |-> line.fileName, lineNumber |-> line.lineNumber, message |-> message]

Location(line) == [fileName |-> line.fileName, lineNumber |-> line.lineNumber]

\* where a throw leaves the invocation; a substitution loop that never ends
\* is reported by the evaluator as the message "hang"
Stopped(err) == IF err.message = "hang" THEN "hang" ELSE "error"

\* tokenize gives every line its file name and its 1-based number
TokenLinesOf(path, lines) ==
  [i \in 1..Len(lines) |-> [tokens |-> lines[i], lineNumber |-> i, fileName |-> path]]

SetTokens(lines, i, tokens) == [lines EXCEPT ![i].tokens = tokens]

\* line.tokens[k] of the source, for the 1-based k; "" stands for undefined
TokenAt(tokens, k) == IF k <= Len(tokens) THEN tokens[k] ELSE ""

Top(stack) == stack[Len(stack)]
Pop(stack) == SubSeq(stack, 1, Len(stack) - 1)
NewFrame(line) == [ifLine |-> Location(line), elseLine |-> NoLine]
ReplaceTop(stack, frame) == [stack EXCEPT ![Len(stack)] = frame]
HasElse(frame) == frame.elseLine # NoLine

IsDirectiveLine(line) == TokenAt(line.tokens, 1) = "#"

\* the clearLines loop of case 'ifdef'/'ifndef'/'if': lines are emptied from
\* line i + 1 on, until a branch of the frame at stackBase is taken or the
\* frame is closed
RECURSIVE clearLinesIf(_, _, _, _, _, _)

\* case 'elif' of that loop at depth stackBase, once the expression of the
\* #elif at line j is evaluated
clearLinesIfElif(cleared, j, stack2, stackBase, macros, line, value) ==
  IF ~value.ok
    THEN [lines |-> cleared, i |-> j, stack |-> stack2,
          err |-> [fileName |-> cleared[j].fileName,
                   lineNumber |-> cleared[j].lineNumber, message |-> value.msg]]
  ELSE IF value.v # 0
    THEN [lines |-> cleared, i |-> j, stack |-> stack2, err |-> NoError]
  ELSE clearLinesIf(cleared, j, stack2, stackBase, macros, line)

clearLinesIf(lines, i, stack, stackBase, macros, line) ==
  IF i + 1 > Len(lines)
    THEN [lines |-> lines, i |-> i + 1, stack |-> stack,
          err |-> LineSyntaxError(line,
                    "unmatched #" \o TokenAt(line.tokens, 2) \o " directive")]
  ELSE
    LET j == i + 1
        removeTokens == lines[j].tokens
        cleared == SetTokens(lines, j, <<>>)
        keyword == TokenAt(removeTokens, 2)
        stop(stack2) == [lines |-> cleared, i |-> j, stack |-> stack2, err |-> NoError]
        throw(message) == [lines |-> cleared, i |-> j, stack |-> stack,
                           err |-> LineSyntaxError(lines[j], message)]
    IN
    IF TokenAt(removeTokens, 1) # "#"
      THEN clearLinesIf(cleared, j, stack, stackBase, macros, line)
    ELSE
      CASE keyword = "else" ->
             IF HasElse(Top(stack)) THEN throw("unmatched #else directive")
             ELSE
               LET stack2 == ReplaceTop(stack,
                               [Top(stack) EXCEPT !.elseLine = Location(lines[j])])
               IN IF Len(stack2) = stackBase
                    THEN stop(stack2)
                    ELSE clearLinesIf(cleared, j, stack2, stackBase, macros, line)
        [] keyword = "elif" ->
             IF HasElse(Top(stack)) THEN throw("unmatched #elif directive")
             ELSE IF Len(stack) = stackBase
               THEN clearLinesIfElif(cleared, j, ReplaceTop(stack, NewFrame(lines[j])),
                      stackBase, macros, line,
                      parseDirectiveExpression(macros,
                        SubSeq(removeTokens, 3, Len(removeTokens))))
               ELSE clearLinesIf(cleared, j, ReplaceTop(stack, NewFrame(lines[j])),
                      stackBase, macros, line)
        [] keyword = "endif" ->
             IF Len(removeTokens) # 2 THEN throw("invalid #endif directive")
             ELSE IF Len(Pop(stack)) < stackBase
               THEN stop(Pop(stack))
               ELSE clearLinesIf(cleared, j, Pop(stack), stackBase, macros, line)
        [] keyword \in {"if", "ifdef", "ifndef"} ->
             clearLinesIf(cleared, j, Append(stack, NewFrame(lines[j])),
                          stackBase, macros, line)
        [] OTHER -> clearLinesIf(cleared, j, stack, stackBase, macros, line)

\* the clearLines loop of case 'else'/'elif': every line up to the #endif
\* that closes the frame at stackBase is emptied
\* (line.tokens was emptied before the loop, so the message of the throw at
\* the end of input reads line.tokens[1] as undefined)
RECURSIVE clearLinesElse(_, _, _, _, _)
clearLinesElse(lines, i, stack, stackBase, line) ==
  IF i + 1 > Len(lines)
    THEN [lines |-> lines, i |-> i + 1, stack |-> stack,
          err |-> LineSyntaxError(line, "unmatched #undefined directive")]
  ELSE
    LET j == i + 1
        removeTokens == lines[j].tokens
        cleared == SetTokens(lines, j, <<>>)
        keyword == TokenAt(removeTokens, 2)
        throw(message) == [lines |-> cleared, i |-> j, stack |-> stack,
                           err |-> LineSyntaxError(lines[j], message)]
    IN
    IF TokenAt(removeTokens, 1) # "#"
      THEN clearLinesElse(cleared, j, stack, stackBase, line)
    ELSE
      CASE keyword \in {"else", "elif"} ->
             IF HasElse(Top(stack))
               THEN throw("unmatched #" \o keyword \o " directive")
             ELSE IF keyword = "else"
               THEN clearLinesElse(cleared, j,
                      ReplaceTop(stack, [Top(stack) EXCEPT !.elseLine = Location(lines[j])]),
                      stackBase, line)
               ELSE clearLinesElse(cleared, j, ReplaceTop(stack, NewFrame(lines[j])),
                      stackBase, line)
        [] keyword = "endif" ->
             IF Len(removeTokens) # 2 THEN throw("invalid #endif directive")
             ELSE IF Len(Pop(stack)) < stackBase
               THEN [lines |-> cleared, i |-> j, stack |-> Pop(stack), err |-> NoError]
               ELSE clearLinesElse(cleared, j, Pop(stack), stackBase, line)
        [] keyword \in {"if", "ifdef", "ifndef"} ->
             clearLinesElse(cleared, j, Append(stack, NewFrame(lines[j])), stackBase, line)
        [] OTHER -> clearLinesElse(cleared, j, stack, stackBase, line)

\* a substitution loop that resumes after the tokens it spliced in: macro
\* names inside a replacement are not expanded
RECURSIVE substituteMacrosOnce(_, _, _, _)
substituteMacrosOnce(macros, tokens, i, fuel) ==
  IF i > Len(tokens) THEN [hang |-> FALSE, tokens |-> tokens]
  ELSE IF MacroHas(macros, tokens[i])
    THEN substituteMacrosOnce(macros,
           SubSeq(tokens, 1, i - 1) \o macros[tokens[i]]
             \o SubSeq(tokens, i + 1, Len(tokens)),
           i + Len(macros[tokens[i]]), fuel)
    ELSE substituteMacrosOnce(macros, tokens, i + 1, fuel)

\* the substitution loop of a line that is no directive: the token at i is
\* replaced by its macro's tokens and the scan resumes at i
RECURSIVE substituteMacros(_, _, _, _)
substituteMacros(macros, tokens, i, fuel) ==
  IF i > Len(tokens) THEN [hang |-> FALSE, tokens |-> tokens]
  ELSE IF MacroHas(macros, tokens[i])
    THEN IF fuel = 0
           THEN [hang |-> TRUE, tokens |-> tokens]
           ELSE substituteMacros(macros,
                  SubSeq(tokens, 1, i - 1) \o macros[tokens[i]]
                    \o SubSeq(tokens, i + 1, Len(tokens)),
                  i, fuel - 1)
    ELSE substituteMacros(macros, tokens, i + 1, fuel)

----------------------------------------------------------------------------
(* The actions of the directive loop: one per case of its switch, one for  *)
(* a line that is no directive, one for the check after the loop.          *)

Scanning == pc = "scan" /\ line_i <= Len(tokenLines)

CurrentLine == tokenLines[line_i]

Directive(keywords) ==
  /\ Scanning
  /\ IsDirectiveLine(CurrentLine)
  /\ TokenAt(CurrentLine.tokens, 2) \in keywords

Throw(err) ==
  /\ pc' = Stopped(err)
  /\ error' = err

\* the state a case of the switch leaves: the lines, the index of the line
\* the loop scans next (of the line it stopped at, after a throw), the
\* conditional stack and what was thrown
Become(after) ==
  /\ tokenLines' = after.lines
  /\ line_i' = after.i
  /\ ifStack' = after.stack
  /\ IF after.err = NoError
       THEN UNCHANGED <<pc, error>>
       ELSE Throw(after.err)

Thrower(lines, i, stack, message) ==
  [lines |-> lines, i |-> i, stack |-> stack,
   err |-> LineSyntaxError(lines[i], message)]

\* case 'define'
DirectiveDefine ==
  /\ Directive({"define"})
  /\ IF Len(CurrentLine.tokens) < 3 \/ ~isKeywordToken(TokenAt(CurrentLine.tokens, 3))
       THEN /\ Throw(LineSyntaxError(CurrentLine, "invalid #define directive"))
            /\ UNCHANGED <<tokenLines, line_i, simpleMacros>>
     ELSE IF MacroHas(simpleMacros, CurrentLine.tokens[3])
       THEN /\ Throw(LineSyntaxError(CurrentLine,
                       "attempt to redefine existing macro: " \o CurrentLine.tokens[3]))
            /\ UNCHANGED <<tokenLines, line_i, simpleMacros>>
     ELSE /\ simpleMacros' = MacroSet(simpleMacros, CurrentLine.tokens[3],
                               SubSeq(CurrentLine.tokens, 4, Len(CurrentLine.tokens)))
          /\ tokenLines' = SetTokens(tokenLines, line_i, <<>>)
          /\ line_i' = line_i + 1
          /\ UNCHANGED <<pc, error>>
  /\ UNCHANGED <<src, ifStack, exprVars, genVars, msgVars, callVars>>

\* case 'undef'
DirectiveUndef ==
  /\ Directive({"undef"})
  /\ IF Len(CurrentLine.tokens) # 3 \/ ~isKeywordToken(CurrentLine.tokens[3])
       THEN /\ Throw(LineSyntaxError(CurrentLine, "invalid #undef directive"))
            /\ UNCHANGED <<tokenLines, line_i, simpleMacros>>
     ELSE IF ~MacroHas(simpleMacros, CurrentLine.tokens[3])
       THEN /\ Throw(LineSyntaxError(CurrentLine,
                       "attempt to undefine nonexisting macro: " \o CurrentLine.tokens[3]))
            /\ UNCHANGED <<tokenLines, line_i, simpleMacros>>
     ELSE /\ simpleMacros' = MacroDelete(simpleMacros, CurrentLine.tokens[3])
          /\ tokenLines' = SetTokens(tokenLines, line_i, <<>>)
          /\ line_i' = line_i + 1
          /\ UNCHANGED <<pc, error>>
  /\ UNCHANGED <<src, ifStack, exprVars, genVars, msgVars, callVars>>

\* the tokens case 'ifdef'/'ifndef'/'if' hands to parseDirectiveExpression
ConditionalTokens(keyword, given) ==
  CASE keyword = "ifdef" -> <<"defined", "(", given[1], ")">>
    [] keyword = "ifndef" -> <<"!", "defined", "(", given[1], ")">>
    [] OTHER -> given

\* case 'if' after its clearLines loop: the directive line is emptied and the
\* scan resumes after the line the loop stopped at
caseIfSkipped(i, skipped) ==
  IF skipped.err # NoError THEN skipped
  ELSE [skipped EXCEPT !.lines = SetTokens(skipped.lines, i, <<>>),
                       !.i = skipped.i + 1]

\* case 'if' once the condition is evaluated: the frame is pushed, and the
\* lines of a false condition are cleared
caseIfEvaluated(lines, i, stack, macros, conditional) ==
  IF ~conditional.ok THEN Thrower(lines, i, stack, conditional.msg)
  ELSE IF conditional.v # 0
    THEN [lines |-> SetTokens(lines, i, <<>>), i |-> i + 1,
          stack |-> Append(stack, NewFrame(lines[i])), err |-> NoError]
  ELSE caseIfSkipped(i,
         clearLinesIf(lines, i, Append(stack, NewFrame(lines[i])), Len(stack) + 1,
                      macros, lines[i]))

\* case 'ifdef': case 'ifndef': case 'if', on the lines with the tokens given
\* after the keyword spliced out of line i
caseIf(lines, i, stack, macros, keyword, given) ==
  IF (IF keyword = "if" THEN Len(given) = 0
                        ELSE Len(given) # 1 \/ ~isKeywordToken(given[1]))
    THEN Thrower(lines, i, stack, "invalid #" \o keyword \o " directive")
    ELSE caseIfEvaluated(lines, i, stack, macros,
           parseDirectiveExpression(macros, ConditionalTokens(keyword, given)))

DirectiveIf ==
  /\ Directive({"ifdef", "ifndef", "if"})
  /\ Become(caseIf(SetTokens(tokenLines, line_i,
                             <<"#", CurrentLine.tokens[2]>>),
                   line_i, ifStack, simpleMacros, CurrentLine.tokens[2],
                   SubSeq(CurrentLine.tokens, 3, Len(CurrentLine.tokens))))
  /\ UNCHANGED <<src, simpleMacros, exprVars, genVars, msgVars, callVars>>

\* case 'else' after its clearLines loop
caseElseSkipped(skipped) ==
  IF skipped.err # NoError THEN skipped
  ELSE [skipped EXCEPT !.i = skipped.i + 1]

\* the frame on top once an #else or #elif line has been accepted
MarkTop(stack, keyword, line) ==
  IF keyword = "elif"
    THEN ReplaceTop(stack, NewFrame(line))
    ELSE ReplaceTop(stack, [Top(stack) EXCEPT !.elseLine = Location(line)])

\* a case 'else' that lacks the clearLines loop: the lines after the directive
\* are scanned as live lines
caseElseKeepingLines(lines, i, stack, keyword) ==
  IF Len(stack) = 0 \/ HasElse(Top(stack))
    THEN Thrower(lines, i, stack, "unmatched #" \o keyword \o " directive")
    ELSE [lines |-> SetTokens(lines, i, <<>>), i |-> i + 1,
          stack |-> MarkTop(stack, keyword, lines[i]), err |-> NoError]

\* case 'else': case 'elif'
caseElse(lines, i, stack, keyword) ==
  IF (IF keyword = "else" THEN Len(lines[i].tokens) # 2 ELSE Len(lines[i].tokens) < 3)
    THEN Thrower(lines, i, stack, "invalid #" \o keyword \o " directive")
  ELSE IF Len(stack) = 0 \/ HasElse(Top(stack))
    THEN Thrower(lines, i, stack, "unmatched #" \o keyword \o " directive")
  ELSE caseElseSkipped(
         clearLinesElse(SetTokens(lines, i, <<>>), i, MarkTop(stack, keyword, lines[i]),
                        Len(stack), lines[i]))

DirectiveElse ==
  /\ Directive({"else", "elif"})
  /\ Become(caseElse(tokenLines, line_i, ifStack, CurrentLine.tokens[2]))
  /\ UNCHANGED <<src, simpleMacros, exprVars, genVars, msgVars, callVars>>

\* case 'endif'
caseEndif(lines, i, stack) ==
  IF Len(lines[i].tokens) # 2 THEN Thrower(lines, i, stack, "invalid #endif directive")
  ELSE IF Len(stack) = 0 THEN Thrower(lines, i, stack, "unmatched #endif directive")
  ELSE [lines |-> SetTokens(lines, i, <<>>), i |-> i + 1, stack |-> Pop(stack),
        err |-> NoError]

DirectiveEndif ==
  /\ Directive({"endif"})
  /\ Become(caseEndif(tokenLines, line_i, ifStack))
  /\ UNCHANGED <<src, simpleMacros, exprVars, genVars, msgVars, callVars>>

\* the keywords the switch has a case for
DirectiveKeywords ==
  {"include", "define", "error", "pragma", "undef", "ifdef", "ifndef", "if",
   "else", "elif", "endif", "message", "word", "item"}

\* default: of the switch
DirectiveDefault ==
  /\ Scanning
  /\ IsDirectiveLine(CurrentLine)
  /\ TokenAt(CurrentLine.tokens, 2) \notin DirectiveKeywords
  /\ Throw(LineSyntaxError(CurrentLine,
       IF isKeywordToken(TokenAt(CurrentLine.tokens, 2))
         THEN "unknown/unsupported directive: #" \o TokenAt(CurrentLine.tokens, 2)
         ELSE "invalid directive"))
  /\ UNCHANGED <<ppVars, exprVars, genVars, msgVars, callVars>>

\* the else branch of the loop body: a line that is no directive
Substituted(scanned) ==
  IF scanned.hang
    THEN /\ pc' = "hang"
         /\ UNCHANGED <<tokenLines, line_i>>
    ELSE /\ tokenLines' = SetTokens(tokenLines, line_i, scanned.tokens)
         /\ line_i' = line_i + 1
         /\ pc' = pc

MacroSubstitution ==
  /\ Scanning
  /\ ~IsDirectiveLine(CurrentLine)
  /\ Substituted(substituteMacros(simpleMacros, CurrentLine.tokens, 1,
                   SubstitutionLimit(simpleMacros, CurrentLine.tokens)))
  /\ UNCHANGED <<src, ifStack, simpleMacros, error, exprVars, genVars, msgVars, callVars>>

\* the check of ifStack after the loop
EndOfInput ==
  /\ pc = "scan"
  /\ line_i > Len(tokenLines)
  /\ IF Len(ifStack) # 0
       THEN Throw([fileName |-> ifStack[1].ifLine.fileName,
                   lineNumber |-> ifStack[1].ifLine.lineNumber,
                   message |-> "unmatched #if"])
       ELSE /\ pc' = "done"
            /\ error' = error
  /\ UNCHANGED <<ppVars, exprVars, genVars, msgVars, callVars>>

----------------------------------------------------------------------------
(* The tables and buffers of compile as they are constructed.              *)

NoBytecode == <<-1>>

\* a slot of messages that holds null or is a hole of the array
NoMessage == <<-1>>

EmptyMap == <<>>

\* messages.length = Math.max(messages.length, n + 1); messages[n] = text
SetMessage(list, n, text) ==
  [k \in 1..(IF Len(list) > n + 1 THEN Len(list) ELSE n + 1) |->
     IF k = n + 1 THEN text
     ELSE IF k <= Len(list) THEN list[k]
     ELSE NoMessage]

\* labelPos, labelPromises, labelListeners, buf and complete as constructed
FreshGenerator ==
  /\ stmt_i = 1
  /\ buf = <<>>
  /\ labelPos = EmptyMap
  /\ labelPromises = {}
  /\ labelListeners = <<>>
  /\ settled = EmptyMap
  /\ complete = <<>>
  /\ bytecode = NoBytecode

NothingParsed ==
  /\ token_i = 1
  /\ statements = <<>>
  /\ FreshGenerator

\* const messages = [null], messageNumbers = new Map(), nextFreeMessageNumber = 1
NoMessages ==
  /\ messages = <<NoMessage>>
  /\ messageNumbers = EmptyMap
  /\ wordNumbers = EmptyMap
  /\ itemNumbers = EmptyMap
  /\ nextFreeMessageNumber = 1
  /\ messageOffsets = <<>>
  /\ messageBlock = <<>>

\* no second invocation
NoCall ==
  [pc |-> "none", error |-> NoError, src |-> <<>>, tokenLines |-> <<>>, line_i |-> 1,
   ifStack |-> <<>>, simpleMacros |-> NoMacros]

OneInvocation ==
  /\ other = NoCall
  /\ sharedMacros = FALSE

NotReturned == [returned |-> FALSE, value |-> <<>>]
ReturnedValue(value) == [returned |-> TRUE, value |-> value]

\* no function is called on its own
NoFunctionCall ==
  /\ fnArgs = [fn |-> "none", arg |-> <<>>]
  /\ fnResult = NotReturned

----------------------------------------------------------------------------
(* The sources the directive loop is run on.                               *)

\* the sequences over S of length at most n
SeqsUpTo(S, n) == UNION {[1..k -> S] : k \in 0..n}

ConditionalLineKinds ==
  {<<"#", "if", "1">>, <<"#", "if", "0">>, <<"#", "elif", "1">>, <<"#", "elif", "0">>,
   <<"#", "else">>, <<"#", "endif">>, <<"a">>}

MacroLineKinds ==
  {<<"#", "define", "X", "1", "2", "3">>, <<"#", "define", "Y", "X", "b">>,
   <<"#", "define", "X", "Y">>, <<"#", "undef", "X">>, <<"X", "a", "Y">>,
   <<"#", "ifdef", "X">>, <<"#", "ifndef", "Y">>, <<"#", "endif">>, <<"#", "b">>}

Sources ==
  SeqsUpTo(ConditionalLineKinds, MaxCondLines) \cup SeqsUpTo(MacroLineKinds, MaxMacroLines)

Init ==
  /\ src \in Sources
  /\ tokenLines = TokenLinesOf("main", src)
  /\ line_i = 1
  /\ ifStack = <<>>
  /\ simpleMacros = NoMacros
  /\ pc = "scan"
  /\ error = NoError
  /\ exprTokens = <<>>
  /\ exprResult = Value(0, <<>>)
  /\ NothingParsed
  /\ NoMessages
  /\ OneInvocation
  /\ NoFunctionCall

Next ==
  \/ DirectiveDefine
  \/ DirectiveUndef
  \/ DirectiveIf
  \/ DirectiveElse
  \/ DirectiveEndif
  \/ DirectiveDefault
  \/ MacroSubstitution
  \/ EndOfInput

Spec == Init /\ [][Next]_vars

----------------------------------------------------------------------------
(* The conditional groups of a source text, read off the text alone: which *)
(* group and branch a line lies in, and which branch of a group a          *)
(* preprocessor keeps.                                                     *)

LineKind(tokens) ==
  IF TokenAt(tokens, 1) # "#" THEN "text"
  ELSE CASE TokenAt(tokens, 2) \in {"if", "ifdef", "ifndef"} -> "if"
         [] TokenAt(tokens, 2) = "elif" -> "elif"
         [] TokenAt(tokens, 2) = "else" -> "else"
         [] TokenAt(tokens, 2) = "endif" -> "endif"
         [] OTHER -> "other"

\* the groups open after the first n lines, innermost last: the line g that
\* opened the group, the line s that began its current branch, whether that
\* branch is the #else branch; ok is FALSE once a line closes or continues a
\* group that is not there
NestingStep(before, kind, n) ==
  IF ~before.ok THEN before
  ELSE CASE kind = "if" ->
              [ok |-> TRUE, open |-> Append(before.open, [g |-> n, s |-> n, e |-> FALSE])]
         [] kind \in {"elif", "else"} ->
              IF before.open = <<>> \/ Top(before.open).e
                THEN [ok |-> FALSE, open |-> before.open]
                ELSE [ok |-> TRUE,
                      open |-> ReplaceTop(before.open,
                                 [g |-> Top(before.open).g, s |-> n, e |-> kind = "else"])]
         [] kind = "endif" ->
              IF before.open = <<>>
                THEN [ok |-> FALSE, open |-> before.open]
                ELSE [ok |-> TRUE, open |-> Pop(before.open)]
         [] OTHER -> before

RECURSIVE Nesting(_, _)
Nesting(lines, n) ==
  IF n = 0 THEN [ok |-> TRUE, open |-> <<>>]
  ELSE NestingStep(Nesting(lines, n - 1), LineKind(lines[n]), n)

WellFormedNesting(lines) ==
  /\ Nesting(lines, Len(lines)).ok
  /\ Nesting(lines, Len(lines)).open = <<>>

\* the branches that enclose line p: those open before it, less its own group
\* when p is a directive of that group
EnclosingOf(open, kind) ==
  IF kind \in {"elif", "else", "endif"} /\ open # <<>> THEN Pop(open) ELSE open

Enclosing(lines, p) == EnclosingOf(Nesting(lines, p - 1).open, LineKind(lines[p]))

\* the group a conditional directive line belongs to
GroupOf(lines, p) ==
  IF LineKind(lines[p]) = "if" THEN p
  ELSE IF Nesting(lines, p - 1).open = <<>> THEN 0
  ELSE Top(Nesting(lines, p - 1).open).g

BranchStarts(lines, g) ==
  {q \in 1..Len(lines) : /\ LineKind(lines[q]) \in {"if", "elif", "else"}
                         /\ Nesting(lines, q).ok
                         /\ GroupOf(lines, q) = g}

IsDefineOf(tokens, name) ==
  TokenAt(tokens, 1) = "#" /\ TokenAt(tokens, 2) = "define" /\ TokenAt(tokens, 3) = name

IsUndefOf(tokens, name) ==
  TokenAt(tokens, 1) = "#" /\ TokenAt(tokens, 2) = "undef" /\ TokenAt(tokens, 3) = name

\* Live: line p lies in no branch that is skipped.  Kept: the branch that
\* starts at q is the one kept of its group, the first whose condition is
\* true.  Holds: the condition of the branch that starts at q.  DefinedAt: a
\* live #define of the name precedes line p and no live #undef follows it.
RECURSIVE Live(_, _), Kept(_, _), Holds(_, _), DefinedAt(_, _, _)
Live(lines, p) ==
  \/ Enclosing(lines, p) = <<>>
  \/ Kept(lines, Top(Enclosing(lines, p)).s)

Kept(lines, q) ==
  /\ Live(lines, q)
  /\ Holds(lines, q)
  /\ \A r \in BranchStarts(lines, GroupOf(lines, q)) : r < q => ~Holds(lines, r)

Holds(lines, q) ==
  CASE TokenAt(lines[q], 2) = "else" -> TRUE
    [] TokenAt(lines[q], 2) = "ifdef" -> DefinedAt(lines, TokenAt(lines[q], 3), q)
    [] TokenAt(lines[q], 2) = "ifndef" -> ~DefinedAt(lines, TokenAt(lines[q], 3), q)
    [] OTHER -> Len(lines[q]) = 3 /\ isNumberToken(lines[q][3]) /\ NumberOfToken(lines[q][3]) # 0

DefinedAt(lines, name, p) ==
  \E d \in 1..(p - 1) :
    /\ IsDefineOf(lines[d], name)
    /\ Live(lines, d)
    /\ \A u \in (d + 1)..(p - 1) : ~(IsUndefOf(lines[u], name) /\ Live(lines, u))

----------------------------------------------------------------------------
(* Conditional groups: which lines survive (C1), which nestings are fatal  *)
(* (C2).                                                                   *)

Survives(p) == tokenLines[p].tokens # <<>>

LinesOfKind(kinds) == {p \in 1..Len(src) : LineKind(src[p]) \in kinds}

Groups == LinesOfKind({"if"})

\* the text lines directly in the branch that starts at q, and those anywhere
\* inside it
DirectLines(q) ==
  {p \in LinesOfKind({"text"}) :
     Enclosing(src, p) # <<>> /\ Top(Enclosing(src, p)).s = q}

InnerLines(q) ==
  {p \in LinesOfKind({"text"}) :
     \E k \in 1..Len(Enclosing(src, p)) : Enclosing(src, p)[k].s = q}

Completed == pc = "done" /\ Len(tokenLines) = Len(src)

\* C1 as stated: when preprocessing of a well-formed nesting completes, every
\* conditional directive line is emptied, each group has one branch whose
\* lines survive while the lines of its other branches are emptied, and the
\* conditional stack is back at the depth it had before the group
C1_ExactlyOneBranchSurvives ==
  (Completed /\ WellFormedNesting(src)) =>
    /\ \A p \in LinesOfKind({"if", "elif", "else", "endif"}) : ~Survives(p)
    /\ \A g \in Groups :
         \E q \in BranchStarts(src, g) :
           /\ \A p \in DirectLines(q) : Survives(p)
           /\ \A r \in BranchStarts(src, g) \ {q} : \A p \in InnerLines(r) : ~Survives(p)
    /\ ifStack = <<>>

\* C1, amended: when preprocessing of a well-formed nesting completes, every
\* conditional directive line is emptied and a text line survives exactly
\* when every branch around it is the first branch of its group whose
\* condition is true (an #else counting as true), so that a group keeps the
\* lines of at most one branch, and of none when no condition of it is true
\* and it has no #else or when it lies in a skipped branch; and while the
\* scan is between lines the depth of the conditional stack is the number of
\* groups open in the text before the line scanned next, so that the depth
\* after a group's #endif is the depth before its opening directive
C1_FirstTrueBranchSurvives ==
  /\ (Completed /\ WellFormedNesting(src)) =>
       /\ \A p \in LinesOfKind({"if", "elif", "else", "endif"}) : ~Survives(p)
       /\ \A p \in LinesOfKind({"text"}) : Survives(p) <=> Live(src, p)
       /\ \A g \in Groups :
            Cardinality({q \in BranchStarts(src, g) :
                           \E p \in InnerLines(q) : Survives(p)}) <= 1
       /\ ifStack = <<>>
  /\ (pc = "scan" /\ Len(tokenLines) = Len(src)) =>
       /\ Nesting(src, line_i - 1).ok
       /\ Len(ifStack) = Len(Nesting(src, line_i - 1).open)

\* a completed run over a group of two branches with a line each, the line
\* of the kept branch surviving and the line of the other emptied
C1_Witness ==
  /\ Completed
  /\ WellFormedNesting(src)
  /\ \E g \in Groups : \E q, r \in BranchStarts(src, g) :
       /\ q # r
       /\ Kept(src, q)
       /\ \E p \in DirectLines(q) : Survives(p)
       /\ \E p \in DirectLines(r) : ~Survives(p)

\* the lines of the directives that opened the groups still open at the end
UnmatchedOpeners(lines) ==
  {Nesting(lines, Len(lines)).open[k].g : k \in 1..Len(Nesting(lines, Len(lines)).open)}

\* an error raised because the input ended
EndOfInputError == pc = "error" /\ line_i > Len(tokenLines)

\* C2 as stated: preprocessing completes on no ill-formed nesting, and an
\* error raised because the input ended with a conditional open is located
\* at the directive that opened an unmatched group
C2_IllFormedNestingIsFatal ==
  /\ Completed => WellFormedNesting(src)
  /\ EndOfInputError =>
       /\ error.fileName = "main"
       /\ error.lineNumber \in UnmatchedOpeners(src)

----------------------------------------------------------------------------
(* Macro expansion (C9).                                                   *)

\* the expansion of a token sequence as a tree: each token that names a macro
\* stands for the expansion of the macro's tokens, every other token for
\* itself; depth bounds the nesting, which is below the number of macros
\* when no macro leads back to itself
RECURSIVE Expansion(_, _, _)
Expansion(macros, tokens, depth) ==
  IF tokens = <<>> THEN <<>>
  ELSE (IF MacroHas(macros, Head(tokens)) /\ depth > 0
          THEN Expansion(macros, macros[Head(tokens)], depth - 1)
          ELSE <<Head(tokens)>>)
       \o Expansion(macros, Tail(tokens), depth)

NamesIn(tokens) == {tokens[k] : k \in 1..Len(tokens)}

OtherLinesUnchanged ==
  \A p \in 1..Len(tokenLines) : p # line_i => tokenLines'[p] = tokenLines[p]

\* C9: a step that scans a line that is no directive to its end leaves on it
\* the expansion of its tokens under the macros defined at that moment,
\* replacements expanded in turn, with no defined macro name left, and
\* changes no other line and no macro; an #undef that succeeds removes its
\* name and nothing else from the table, so that later lines keep the name;
\* a #define of a defined name and an #undef of an undefined name stop with
\* an error and leave the table as it was
C9_MacroExpansion ==
  [][/\ (MacroSubstitution /\ pc' = "scan") =>
          /\ tokenLines'[line_i].tokens
               = Expansion(simpleMacros, tokenLines[line_i].tokens,
                           Cardinality(DOMAIN simpleMacros))
          /\ NamesIn(tokenLines'[line_i].tokens) \cap DOMAIN simpleMacros = {}
          /\ OtherLinesUnchanged
          /\ line_i' = line_i + 1
          /\ simpleMacros' = simpleMacros
     /\ (DirectiveUndef /\ MacroHas(simpleMacros, TokenAt(CurrentLine.tokens, 3))) =>
          /\ pc' = "scan"
          /\ DOMAIN simpleMacros' = DOMAIN simpleMacros \ {CurrentLine.tokens[3]}
          /\ \A n \in DOMAIN simpleMacros' : simpleMacros'[n] = simpleMacros[n]
     /\ (DirectiveUndef /\ ~MacroHas(simpleMacros, TokenAt(CurrentLine.tokens, 3))) =>
          /\ pc' = "error"
          /\ error'.lineNumber = line_i
          /\ simpleMacros' = simpleMacros
     /\ (DirectiveDefine /\ MacroHas(simpleMacros, TokenAt(CurrentLine.tokens, 3))) =>
          /\ pc' = "error"
          /\ error'.lineNumber = line_i
          /\ simpleMacros' = simpleMacros
     /\ (DirectiveDefine /\ ~MacroHas(simpleMacros, TokenAt(CurrentLine.tokens, 3))) =>
          /\ pc' = "scan"
          /\ simpleMacros' = (CurrentLine.tokens[3] :> SubSeq(CurrentLine.tokens, 4,
                                Len(CurrentLine.tokens))) @@ simpleMacros
    ]_vars

\* a line on which X and Y were expanded, the X inside Y's replacement too
C9_Witness ==
  /\ pc \in {"scan", "done"}
  /\ \E p \in 1..Len(src) :
       /\ p < line_i
       /\ src[p] = <<"X", "a", "Y">>
       /\ simpleMacros = ("X" :> <<"1", "2", "3">>) @@ ("Y" :> <<"X", "b">>)
       /\ tokenLines[p].tokens = <<"1", "2", "3", "a", "1", "2", "3", "b">>

----------------------------------------------------------------------------
(* parseDirectiveExpression on constant expressions (C10).                 *)

UnaryOps == {"!", "+", "-", "~"}

BinaryOps == DOMAIN OP_PRECEDENCE \ {"?"}

Literals == {LiteralToken(n) : n \in 0..MaxLiteral}

\* expressions at the ends of the 32-bit range: the largest int under one and
\* two unary operators and at the left of every binary operator, 1 << 31,
\* and the negation of -2^31 at either side of every binary operator
RangeSources ==
  {<<u, "(", v, "2147483647", ")">> : u \in UnaryOps, v \in UnaryOps}
  \cup {<<"2147483647", o, b>> : o \in BinaryOps, b \in {"1", "2147483647"}}
  \cup {<<v, "2147483647", o, b>> : v \in {"-", "~"}, o \in BinaryOps,
                                    b \in {"1", "2147483647"}}
  \cup {<<"-", "(", "~", "2147483647", ")", o, b>> :
          o \in BinaryOps, b \in {"0", "2", "2147483647"}}
  \cup {<<b, o, "-", "(", "~", "2147483647", ")">> :
          o \in BinaryOps, b \in {"0", "2", "2147483647"}}
  \cup {<<"1", "<<", "(", "010", "*", "3", "+", "1", ")">>,
        <<"-", "(", "1", "<<", "(", "010", "*", "3", "+", "1", ")", ")">>,
        <<"-", "(", "~", "2147483647", ")", "/", "-", "(", "~", "2147483647", ")">>,
        <<"-", "-", "(", "~", "2147483647", ")">>}

\* the expressions evaluated: two binary operators over three literals, bare
\* and with either pair in parentheses, a unary operator on either operand
\* of a binary operator or on a parenthesis, and the expression 1 + 2 * 3 == 7
ExprSources ==
  {<<a, o, b, q, c>> : a \in Literals, o \in BinaryOps, b \in Literals,
                       q \in BinaryOps, c \in Literals}
  \cup {<<"(", a, o, b, ")", q, c>> : a \in Literals, o \in BinaryOps, b \in Literals,
                                      q \in BinaryOps, c \in Literals}
  \cup {<<a, o, "(", b, q, c, ")">> : a \in Literals, o \in BinaryOps, b \in Literals,
                                      q \in BinaryOps, c \in Literals}
  \cup {<<u, a, o, b>> : u \in UnaryOps, a \in Literals, o \in BinaryOps, b \in Literals}
  \cup {<<a, o, u, b>> : u \in UnaryOps, a \in Literals, o \in BinaryOps, b \in Literals}
  \cup {<<u, "(", a, o, b, ")">> : u \in UnaryOps, a \in Literals, o \in BinaryOps,
                                   b \in Literals}
  \cup {<<"1", "+", "2", "*", "3", "==", "7">>, <<"010">>}
  \cup RangeSources

InitExpr ==
  /\ src = <<>>
  /\ tokenLines = <<>>
  /\ line_i = 1
  /\ ifStack = <<>>
  /\ simpleMacros = NoMacros
  /\ error = NoError
  /\ pc = "expr"
  /\ exprTokens \in ExprSources
  /\ exprResult = Value(0, <<>>)
  /\ NothingParsed
  /\ NoMessages
  /\ OneInvocation
  /\ NoFunctionCall

\* one call of parseDirectiveExpression
EvaluateExpression ==
  /\ pc = "expr"
  /\ exprResult' = parseDirectiveExpression(simpleMacros, exprTokens)
  /\ pc' = IF exprResult'.ok THEN "evaluated" ELSE Stopped([message |-> exprResult'.msg])
  /\ UNCHANGED <<error, ppVars, exprTokens, genVars, msgVars, callVars>>

NextExpr == EvaluateExpression

SpecExpr == InitExpr /\ [][NextExpr]_vars

\* The value C gives a constant expression of type int, read off the token
\* sequence: an expression with binary operators outside parentheses is the
\* operation of the loosest of them, the rightmost of equals, on the parts at
\* its sides.  def is FALSE where C leaves the value undefined or to the
\* implementation: division by zero, a shift by a count outside 0..31 or of a
\* negative number, a result outside the range of int.
CDefined(n) == [def |-> TRUE, v |-> n]
CUndefined == [def |-> FALSE, v |-> 0]

CPrecedence(op) ==
  CASE op = "||" -> 1
    [] op = "&&" -> 2
    [] op = "|" -> 3
    [] op = "^" -> 4
    [] op = "&" -> 5
    [] op \in {"==", "!="} -> 6
    [] op \in {"<", "<=", ">", ">="} -> 7
    [] op \in {"<<", ">>"} -> 8
    [] op \in {"+", "-"} -> 9
    [] op \in {"*", "/", "%"} -> 10

\* an integer literal: decimal, or octal after a leading 0
CLiteral(s) ==
  IF s = "010" THEN 8
  ELSE IF s = "2147483647" THEN MaxInt32
  ELSE CHOOSE n \in 0..9 : LiteralToken(n) = s

CInRange(n) == IF MinInt32 <= n /\ n <= MaxInt32 THEN CDefined(n) ELSE CUndefined

CTruth(b) == CDefined(IF b THEN 1 ELSE 0)

\* the quotient truncated toward zero
CQuotientWithin(a, b) ==
  (IF (a < 0) = (b < 0) THEN 1 ELSE -1) * (Abs(a) \div Abs(b))

CQuotient(a, b) ==
  IF b = MinInt32 THEN (IF a = MinInt32 THEN 1 ELSE 0)
  ELSE IF a = MinInt32
    THEN CQuotientWithin(a + Abs(b), b) + (IF b > 0 THEN -1 ELSE 1)
  ELSE CQuotientWithin(a, b)

\* whether the sum of two ints is an int
CSumInRange(a, b) ==
  IF b >= 0 THEN a <= MaxInt32 - b ELSE a >= MinInt32 - b

\* bit k of the two's-complement representation
CBit(x, k) == (x \div Power(2, k)) % 2

CBitOp(op, x, y) ==
  CASE op = "&" -> x * y
    [] op = "|" -> x + y - x * y
    [] op = "^" -> (x + y) % 2

RECURSIVE CLowBits(_, _, _, _)
CLowBits(op, a, b, k) ==
  IF k = 31 THEN 0
  ELSE CBitOp(op, CBit(a, k), CBit(b, k)) * Power(2, k) + CLowBits(op, a, b, k + 1)

CBitwise(op, a, b) ==
  CLowBits(op, a, b, 0)
    + (IF CBitOp(op, IF a < 0 THEN 1 ELSE 0, IF b < 0 THEN 1 ELSE 0) = 1
         THEN MinInt32 ELSE 0)

CBinary(op, l, r) ==
  IF ~l.def \/ ~r.def THEN CUndefined
  ELSE CASE op = "||" -> CTruth(l.v # 0 \/ r.v # 0)
         [] op = "&&" -> CTruth(l.v # 0 /\ r.v # 0)
         [] op \in {"|", "^", "&"} -> CDefined(CBitwise(op, l.v, r.v))
         [] op = "==" -> CTruth(l.v = r.v)
         [] op = "!=" -> CTruth(l.v # r.v)
         [] op = "<" -> CTruth(l.v < r.v)
         [] op = "<=" -> CTruth(l.v <= r.v)
         [] op = ">" -> CTruth(l.v > r.v)
         [] op = ">=" -> CTruth(l.v >= r.v)
         [] op = "<<" -> IF l.v < 0 \/ r.v < 0 \/ r.v > 30 \/ l.v > MaxInt32 \div Power(2, r.v)
                           THEN CUndefined ELSE CDefined(l.v * Power(2, r.v))
         [] op = ">>" -> IF l.v < 0 \/ r.v < 0 \/ r.v > 30
                           THEN CUndefined ELSE CDefined(l.v \div Power(2, r.v))
         [] op = "+" -> IF CSumInRange(l.v, r.v)
                          THEN CDefined(l.v + r.v) ELSE CUndefined
         [] op = "-" -> IF (IF r.v = MinInt32 THEN l.v < 0 ELSE CSumInRange(l.v, -r.v))
                          THEN CDefined(l.v - r.v) ELSE CUndefined
         [] op = "*" -> IF l.v > 32767 \/ l.v < -32767 \/ r.v > 32767 \/ r.v < -32767
                          THEN CUndefined ELSE CDefined(l.v * r.v)
         [] op = "/" -> IF r.v = 0 \/ (l.v = MinInt32 /\ r.v = -1)
                          THEN CUndefined ELSE CDefined(CQuotient(l.v, r.v))
         [] op = "%" -> IF r.v = 0 \/ (l.v = MinInt32 /\ r.v = -1)
                          THEN CUndefined
                          ELSE CDefined(l.v - r.v * CQuotient(l.v, r.v))

CUnary(op, x) ==
  IF ~x.def THEN CUndefined
  ELSE CASE op = "!" -> CTruth(x.v = 0)
         [] op = "+" -> x
         [] op = "-" -> IF x.v = MinInt32 THEN CUndefined ELSE CDefined(-x.v)
         [] op = "~" -> CDefined(-1 - x.v)

\* how many parentheses are open before token k
ParenDepth(tokens, k) ==
  Cardinality({j \in 1..(k - 1) : tokens[j] = "("})
    - Cardinality({j \in 1..(k - 1) : tokens[j] = ")"})

\* the binary operators outside parentheses: an operator token is binary when
\* an operand ends just before it
OuterBinary(tokens) ==
  {k \in 2..(Len(tokens) - 1) :
     /\ tokens[k] \in BinaryOps
     /\ tokens[k - 1] \in NumberTokens \cup {")"}
     /\ ParenDepth(tokens, k) = 0}

Loosest(tokens) ==
  CHOOSE k \in OuterBinary(tokens) :
    \A j \in OuterBinary(tokens) :
      \/ CPrecedence(tokens[k]) < CPrecedence(tokens[j])
      \/ CPrecedence(tokens[k]) = CPrecedence(tokens[j]) /\ j <= k

RECURSIVE CValue(_)
CSplit(tokens, k) ==
  CBinary(tokens[k], CValue(SubSeq(tokens, 1, k - 1)),
          CValue(SubSeq(tokens, k + 1, Len(tokens))))

CValue(tokens) ==
  IF tokens = <<>> THEN CUndefined
  ELSE IF OuterBinary(tokens) # {} THEN CSplit(tokens, Loosest(tokens))
  ELSE IF Len(tokens) = 1 /\ tokens[1] \in NumberTokens THEN CDefined(CLiteral(tokens[1]))
  ELSE IF tokens[1] \in UnaryOps THEN CUnary(tokens[1], CValue(Tail(tokens)))
  ELSE IF tokens[1] = "(" /\ tokens[Len(tokens)] = ")"
    THEN CValue(SubSeq(tokens, 2, Len(tokens) - 1))
  ELSE CUndefined

\* C10 as stated: the evaluator returns, for every expression C gives a
\* value, that value; in particular 1 + 2 * 3 == 7 evaluates to 1
C10_CStyleValue ==
  (pc # "expr" /\ CValue(exprTokens).def) =>
    /\ pc = "evaluated"
    /\ exprResult.ok
    /\ ~exprResult.over
    /\ exprResult.v = CValue(exprTokens).v

\* C11 as stated: every value parseDirectiveExpression returns lies in the
\* signed 32-bit range; the expressions evaluated include each operand of
\* the larger ones as an expression of its own, so the values returned are
\* the intermediate values as well
C11_Int32Range ==
  pc = "evaluated" =>
    /\ ~exprResult.over
    /\ MinInt32 <= exprResult.v
    /\ exprResult.v <= MaxInt32

----------------------------------------------------------------------------
(* The code generator: pushCondition and pushStatement on the statements   *)
(* the parser produced.  A statement or expression is a record with the    *)
(* fields of its interface; g is the generator's state while a statement   *)
(* is pushed: buf, the label maps, the patches chained so far, and err,    *)
(* the message of the Error thrown ("" while none is).                     *)

\* the commands of ./commands the model's programs use: name, code, params
\* (vararg for params === 'vararg'); word.sample stands for an action
\* command declared with a 'word' parameter
actionCommandsByName ==
  [name \in {"return", "increment", "word.sample", "print", "get", "set", "reset",
             "toggle"} |->
     CASE name = "return" -> [code |-> 0, params |-> <<>>, vararg |-> FALSE]
       [] name = "set" -> [code |-> 12, params |-> <<"flag">>, vararg |-> FALSE]
       [] name = "reset" -> [code |-> 13, params |-> <<"flag">>, vararg |-> FALSE]
       [] name = "toggle" -> [code |-> 14, params |-> <<"flag">>, vararg |-> FALSE]
       [] name = "increment" -> [code |-> 1, params |-> <<"variable">>, vararg |-> FALSE]
       [] name = "word.sample" ->
            [code |-> 109, params |-> <<"number", "word">>, vararg |-> FALSE]
       [] name = "print" -> [code |-> 101, params |-> <<"message">>, vararg |-> FALSE]
       [] name = "get" -> [code |-> 92, params |-> <<"inventory-item">>, vararg |-> FALSE]]

testCommandsByName ==
  [name \in {"isset", "said", "issetv", "equaln", "equalv", "lessn", "lessv", "greatern",
             "greaterv"} |->
     CASE name = "isset" -> [code |-> 7, params |-> <<"flag">>, vararg |-> FALSE]
       [] name = "issetv" -> [code |-> 8, params |-> <<"variable">>, vararg |-> FALSE]
       [] name = "equaln" ->
            [code |-> 1, params |-> <<"variable", "number">>, vararg |-> FALSE]
       [] name = "equalv" ->
            [code |-> 2, params |-> <<"variable", "variable">>, vararg |-> FALSE]
       [] name = "lessn" ->
            [code |-> 3, params |-> <<"variable", "number">>, vararg |-> FALSE]
       [] name = "lessv" ->
            [code |-> 4, params |-> <<"variable", "variable">>, vararg |-> FALSE]
       [] name = "greatern" ->
            [code |-> 5, params |-> <<"variable", "number">>, vararg |-> FALSE]
       [] name = "greaterv" ->
            [code |-> 6, params |-> <<"variable", "variable">>, vararg |-> FALSE]
       [] name = "said" -> [code |-> 14, params |-> <<>>, vararg |-> TRUE]]

\* n & 0xff, (n >> 8) & 0xff and (n >> 16) & 0xff of a number within 32 bits
LowByte(n) == n % 256
HighByte(n) == (n \div 256) % 256
ThirdByte(n) == (n \div 65536) % 256

NoStatement == [type |-> "none"]

Push(g, bytes) == [g EXCEPT !.buf = @ \o bytes]

GenThrow(g, message) == [g EXCEPT !.err = message]

\* buf[jumpFrom-2] = rel & 0xff; buf[jumpFrom-1] = (rel >> 8) & 0xff
SetJump(bytes, jumpFrom, rel) ==
  [bytes EXCEPT ![jumpFrom - 1] = LowByte(rel), ![jumpFrom] = HighByte(rel)]

Patch(g, jumpFrom, rel) == [g EXCEPT !.buf = SetJump(@, jumpFrom, rel)]

\* the parameter loop of pushCondition2, case 'call'
conditionParamBytes(param) ==
  CASE param.type = "uint8" -> <<param.value>>
    [] param.type = "uint16" -> <<LowByte(param.value), HighByte(param.value)>>
    [] OTHER -> <<>>

RECURSIVE pushConditionParams(_, _, _)
pushConditionParams(params, k, g) ==
  IF k > Len(params) THEN g
  ELSE pushConditionParams(params, k + 1, Push(g, conditionParamBytes(params[k])))

RECURSIVE pushCondition2(_, _, _)
RECURSIVE pushOperands(_, _, _, _)
pushOperands(operands, k, ctx, g) ==
  IF k > Len(operands) \/ g.err # "" THEN g
  ELSE pushOperands(operands, k + 1, ctx, pushCondition2(operands[k], ctx, g))

\* a group that is never closed
pushUnclosed(expr, delimiter, ctx, operandsPushed) == operandsPushed

\* case 'and' and case 'or': the delimiter is left out inside an expression
\* of the same kind
pushDelimited(expr, delimiter, ctx, operandsPushed) ==
  IF operandsPushed.err # "" \/ ctx = expr.type THEN operandsPushed
  ELSE Push(operandsPushed, <<delimiter>>)

pushConditionCall(expr, g) ==
  IF expr.func \notin DOMAIN testCommandsByName
    THEN GenThrow(g, "unknown test command: " \o expr.func)
  ELSE IF testCommandsByName[expr.func].vararg
    THEN IF Len(expr.params) > 255
           THEN GenThrow(Push(g, <<testCommandsByName[expr.func].code>>),
                         "too many arguments to " \o expr.func \o "()")
           ELSE pushConditionParams(expr.params, 1,
                  Push(g, <<testCommandsByName[expr.func].code, Len(expr.params)>>))
  ELSE pushConditionParams(expr.params, 1, Push(g, <<testCommandsByName[expr.func].code>>))

pushCondition2(expr, ctx, g) ==
  CASE expr.type = "and" ->
         pushDelimited(expr, 255, ctx,
           pushOperands(expr.operands, 1, "and",
             IF ctx # "and" THEN Push(g, <<255>>) ELSE g))
    [] expr.type = "or" ->
         pushDelimited(expr, 252, ctx,
           pushOperands(expr.operands, 1, "or",
             IF ctx # "or" THEN Push(g, <<252>>) ELSE g))
    [] expr.type = "not" -> pushCondition2(expr.operand, "not", Push(g, <<253>>))
    [] expr.type = "call" -> pushConditionCall(expr, g)
    [] OTHER -> GenThrow(g, "unexpected condition type: " \o expr.type)

pushConditionEnd(pushed) == IF pushed.err # "" THEN pushed ELSE Push(pushed, <<255>>)

pushCondition(expr, g) == pushConditionEnd(pushCondition2(expr, "and", Push(g, <<255>>)))

\* the parameter loop of pushStatement, case 'call'
statementParamBytes(param) ==
  CASE param.type = "uint8" -> <<param.value>>
    [] param.type = "uint16" -> <<LowByte(param.value), ThirdByte(param.value)>>

RECURSIVE pushStatementParams(_, _, _)
pushStatementParams(params, k, g) ==
  IF k > Len(params) THEN g
  ELSE IF params[k].type \notin {"uint8", "uint16"}
    THEN GenThrow(g, "unexpected param type: " \o params[k].type)
  ELSE pushStatementParams(params, k + 1, Push(g, statementParamBytes(params[k])))

\* a backward goto whose offset is counted from its opcode
pushGotoBackFromOpcode(statement, basePos, g) ==
  Push(g, <<254, LowByte(g.labelPos[statement.label] - (basePos - 3)),
            HighByte(g.labelPos[statement.label] - (basePos - 3))>>)

\* case 'goto' when labelPos has the label
pushGotoBack(statement, basePos, g) ==
  Push(g, <<254, LowByte(g.labelPos[statement.label] - basePos),
            HighByte(g.labelPos[statement.label] - basePos)>>)

\* case 'goto' when it has not: the promise of the label is created with its
\* listener unless one is pending, and the patch is chained on it
pushGotoForward(statement, basePos, g) ==
  [g EXCEPT
     !.labelListeners = IF statement.label \in g.labelPromises
                          THEN @ ELSE Append(@, statement.label),
     !.labelPromises = @ \cup {statement.label},
     !.complete = Append(@, [label |-> statement.label, basePos |-> basePos,
                             ran |-> FALSE]),
     !.buf = @ \o <<254, 0, 0>>]

pushGoto(statement, basePos, g) ==
  IF statement.label \in DOMAIN g.labelPos
    THEN pushGotoBack(statement, basePos, g)
    ELSE pushGotoForward(statement, basePos, g)

Without(seq, x) == SelectSeq(seq, LAMBDA y : y # x)

\* case 'label': the listener of the label, if there is one, deletes the
\* promise from labelPromises and resolves it with buf.length
pushLabel(statement, g) ==
  IF statement.label \in DOMAIN g.labelPos
    THEN GenThrow(g, "multiple jump labels named " \o statement.label)
  ELSE IF statement.label \in g.labelPromises
    THEN [g EXCEPT
            !.labelPos = (statement.label :> Len(g.buf)) @@ @,
            !.labelPromises = @ \ {statement.label},
            !.settled = (statement.label :> Len(g.buf)) @@ @,
            !.labelListeners = Without(@, statement.label)]
  ELSE [g EXCEPT !.labelPos = (statement.label :> Len(g.buf)) @@ @]

pushCall(statement, g) ==
  IF statement.func \notin DOMAIN actionCommandsByName
    THEN GenThrow(g, "unknown command: " \o statement.func)
    ELSE pushStatementParams(statement.params, 1,
           Push(g, <<actionCommandsByName[statement.func].code>>))

RECURSIVE pushStatement(_, _)
RECURSIVE pushBody(_, _, _)
pushBody(body, k, g) ==
  IF k > Len(body) \/ g.err # "" THEN g
  ELSE pushBody(body, k + 1, pushStatement(body[k], g))

\* case 'if', after pushStatement(statement.elseDo)
ifElsePushed(jumpFrom2, g) ==
  IF g.err # "" THEN g
  ELSE Patch(g, jumpFrom2, Len(g.buf) - jumpFrom2)

\* case 'if', after pushStatement(statement.thenDo)
ifThenPushed(statement, jumpFrom1, g) ==
  IF g.err # "" THEN g
  ELSE IF statement.elseDo # NoStatement
    THEN ifElsePushed(Len(g.buf) + 3,
           pushStatement(statement.elseDo,
             Patch(Push(g, <<254, 0, 0>>), jumpFrom1, Len(g.buf) + 3 - jumpFrom1)))
  ELSE Patch(g, jumpFrom1, Len(g.buf) - jumpFrom1)

\* case 'if', after pushCondition(statement.condition)
ifConditionPushed(statement, g) ==
  IF g.err # "" THEN g
  ELSE ifThenPushed(statement, Len(g.buf) + 2,
         pushStatement(statement.thenDo, Push(g, <<0, 0>>)))

\* a while whose backward jump lands after the condition
whileBodyPushedToBody(backJumpTo, forewardJumpFrom, g) ==
  IF g.err # "" THEN g
  ELSE Patch(Push(g, <<254, LowByte(forewardJumpFrom - (Len(g.buf) + 3)),
                       HighByte(forewardJumpFrom - (Len(g.buf) + 3))>>),
             forewardJumpFrom, Len(g.buf) + 3 - forewardJumpFrom)

\* case 'while', after pushStatement(statement.doThis)
whileBodyPushed(backJumpTo, forewardJumpFrom, g) ==
  IF g.err # "" THEN g
  ELSE Patch(Push(g, <<254, LowByte(backJumpTo - (Len(g.buf) + 3)),
                       HighByte(backJumpTo - (Len(g.buf) + 3))>>),
             forewardJumpFrom, Len(g.buf) + 3 - forewardJumpFrom)

\* case 'while', after pushCondition(statement.condition)
whileConditionPushed(statement, backJumpTo, g) ==
  IF g.err # "" THEN g
  ELSE whileBodyPushed(backJumpTo, Len(g.buf) + 2,
         pushStatement(statement.doThis, Push(g, <<0, 0>>)))

\* case 'do', after pushCondition(statement.condition)
doConditionPushed(backJumpPos, g) ==
  IF g.err # "" THEN g
  ELSE Push(g, <<3, 0, 254, LowByte(backJumpPos - (Len(g.buf) + 2 + 3)),
                 HighByte(backJumpPos - (Len(g.buf) + 2 + 3))>>)

\* case 'do', after pushStatement(statement.body)
doBodyPushed(statement, backJumpPos, g) ==
  IF g.err # "" THEN g
  ELSE doConditionPushed(backJumpPos, pushCondition(statement.condition, g))

pushStatement(statement, g) ==
  CASE statement.type = "block" -> pushBody(statement.body, 1, g)
    [] statement.type = "empty" -> g
    [] statement.type = "goto" -> pushGoto(statement, Len(g.buf) + 3, g)
    [] statement.type = "label" -> pushLabel(statement, g)
    [] statement.type = "call" -> pushCall(statement, g)
    [] statement.type = "if" ->
         ifConditionPushed(statement, pushCondition(statement.condition, g))
    [] statement.type = "while" ->
         whileConditionPushed(statement, Len(g.buf),
           pushCondition(statement.condition, g))
    [] statement.type = "do" ->
         doBodyPushed(statement, Len(g.buf), pushStatement(statement.body, g))
    [] OTHER -> g

----------------------------------------------------------------------------
(* The emitting loop of compile, the check of labelListeners, the patches  *)
(* that run while compile awaits Promise.all(complete), and the return.    *)

CurrentGen ==
  [buf |-> buf, labelPos |-> labelPos, labelPromises |-> labelPromises,
   labelListeners |-> labelListeners, settled |-> settled, complete |-> complete,
   err |-> ""]

PlainError(message) == [fileName |-> "", lineNumber |-> 0, message |-> message]

GenBecome(after) ==
  /\ buf' = after.buf
  /\ labelPos' = after.labelPos
  /\ labelPromises' = after.labelPromises
  /\ labelListeners' = after.labelListeners
  /\ settled' = after.settled
  /\ complete' = after.complete
  /\ IF after.err = ""
       THEN /\ stmt_i' = stmt_i + 1
            /\ UNCHANGED <<pc, error>>
       ELSE /\ stmt_i' = stmt_i
            /\ Throw(PlainError(after.err))

\* for (const statement of statements) pushStatement(statement), one turn
EmitStatement ==
  /\ pc = "emit"
  /\ stmt_i <= Len(statements)
  /\ GenBecome(pushStatement(statements[stmt_i], CurrentGen))
  /\ UNCHANGED <<token_i, statements, bytecode, ppVars, exprVars, msgVars, callVars>>

\* a join that stops after the first name
FirstName(names, separator) == IF names = <<>> THEN "" ELSE names[1]

\* Array.prototype.join
RECURSIVE JoinNames(_, _)
JoinNames(names, separator) ==
  IF names = <<>> THEN ""
  ELSE IF Len(names) = 1 THEN names[1]
  ELSE names[1] \o separator \o JoinNames(Tail(names), separator)

\* the check of undefinedLabels after the loop
CheckUndefinedLabels ==
  /\ pc = "emit"
  /\ stmt_i > Len(statements)
  /\ IF Len(labelListeners) # 0
       THEN Throw(PlainError("label target(s) not found: "
                               \o JoinNames(labelListeners, ", ")))
       ELSE /\ pc' = "await"
            /\ error' = error
  /\ UNCHANGED <<genVars, ppVars, exprVars, msgVars, callVars>>

\* a callback chained on a resolved promise runs: it writes the offset of
\* its goto
RunPatch ==
  /\ pc = "await"
  /\ \E k \in 1..Len(complete) :
       /\ ~complete[k].ran
       /\ complete[k].label \in DOMAIN settled
       /\ buf' = SetJump(buf, complete[k].basePos,
                         settled[complete[k].label] - complete[k].basePos)
       /\ complete' = [complete EXCEPT ![k].ran = TRUE]
  /\ UNCHANGED <<pc, error, token_i, statements, stmt_i, labelPos, labelPromises,
                 labelListeners, settled, bytecode, ppVars, exprVars, msgVars, callVars>>

\* a loop that counts no terminator
RECURSIVE MessageOffsetsUnterminated(_, _, _)
MessageOffsetsUnterminated(list, k, messageBlockLen) ==
  IF k > Len(list) THEN <<>>
  ELSE IF list[k] = NoMessage
    THEN <<-1>> \o MessageOffsetsUnterminated(list, k + 1, messageBlockLen)
    ELSE <<messageBlockLen>>
           \o MessageOffsetsUnterminated(list, k + 1, messageBlockLen + Len(list[k]))

\* the loop that fills messageOffsets
RECURSIVE MessageOffsetsFrom(_, _, _)
MessageOffsetsFrom(list, k, messageBlockLen) ==
  IF k > Len(list) THEN <<>>
  ELSE IF list[k] = NoMessage
    THEN <<-1>> \o MessageOffsetsFrom(list, k + 1, messageBlockLen)
    ELSE <<messageBlockLen>>
           \o MessageOffsetsFrom(list, k + 1, messageBlockLen + Len(list[k]) + 1)

\* Array.prototype.join('\0') on texts
RECURSIVE JoinTexts(_)
JoinTexts(texts) ==
  IF texts = <<>> THEN <<>>
  ELSE IF Len(texts) = 1 THEN texts[1]
  ELSE texts[1] \o <<0>> \o JoinTexts(Tail(texts))

\* messages.filter(v => v != null).join('\0') + '\0'
MessageBlockOf(list) == JoinTexts(SelectSeq(list, LAMBDA v : v # NoMessage)) \o <<0>>

\* Promise.all(complete) is fulfilled once every callback has run: compile
\* lays out the messages and returns
Return ==
  /\ pc = "await"
  /\ \A k \in 1..Len(complete) : complete[k].ran
  /\ pc' = "returned"
  /\ bytecode' = buf
  /\ messageOffsets' = MessageOffsetsFrom(messages, 1, 0)
  /\ messageBlock' = MessageBlockOf(messages)
  /\ UNCHANGED <<error, statements, stmt_i, buf, labelPos, labelPromises, labelListeners,
                 settled, complete, token_i, messages, messageNumbers, wordNumbers,
                 itemNumbers, nextFreeMessageNumber, ppVars, exprVars, callVars>>

----------------------------------------------------------------------------
(* The programs the generator is run on.                                   *)

GotoOf(label) == [type |-> "goto", label |-> label]
LabelOf(label) == [type |-> "label", label |-> label]
CallOf(func, params) == [type |-> "call", func |-> func, params |-> params]
IfOf(condition, thenDo, elseDo) ==
  [type |-> "if", condition |-> condition, thenDo |-> thenDo, elseDo |-> elseDo]
WhileOf(condition, doThis) == [type |-> "while", condition |-> condition, doThis |-> doThis]
DoOf(body, condition) == [type |-> "do", body |-> body, condition |-> condition]
BlockOf(body) == [type |-> "block", body |-> body]
Uint8(meaning, value) == [type |-> "uint8", meaning |-> meaning, value |-> value]
Uint16(value) == [type |-> "uint16", meaning |-> "word", value |-> value]
TestOf(func, params) == [type |-> "call", func |-> func, params |-> params]

Increment == CallOf("increment", <<Uint8("variable", 1)>>)
IsSet == TestOf("isset", <<Uint8("flag", 1)>>)

Conditions ==
  {IsSet,
   [type |-> "not", operand |-> IsSet],
   [type |-> "or", operands |-> <<IsSet, [type |-> "and", operands |-> <<IsSet, IsSet>>]>>],
   TestOf("said", <<Uint16(256), Uint16(1)>>)}

GotoKinds ==
  {GotoOf("x"), GotoOf("y"), LabelOf("x"), LabelOf("y"), Increment,
   IfOf(IsSet, GotoOf("x"), NoStatement),
   BlockOf(<<LabelOf("y"), GotoOf("x")>>)}

Simple == {Increment, [type |-> "empty"], GotoOf("x")}

CompoundOver(conditions, thens, elses) ==
  {IfOf(c, s, NoStatement) : c \in conditions, s \in thens}
  \cup {IfOf(c, s, t) : c \in conditions, s \in thens, t \in elses}
  \cup {WhileOf(c, s) : c \in conditions, s \in thens}
  \cup {DoOf(s, c) : c \in conditions, s \in thens}
  \cup {BlockOf(<<s, t>>) : s \in thens, t \in elses}

Nested == Simple \cup CompoundOver({IsSet, TestOf("said", <<Uint16(256), Uint16(1)>>)},
                                   Simple, Simple)

Structured ==
  CompoundOver(Conditions, Nested, Simple) \cup CompoundOver(Conditions, Simple, Nested)

WordNumbers == {0, 255, 256, 65535}

Calls ==
  {CallOf("increment", <<Uint8("variable", v)>>) : v \in {0, 255}}
  \cup {CallOf("word.sample", <<Uint8("number", n), Uint16(w)>>) :
          n \in {0, 255}, w \in WordNumbers}
  \cup {IfOf(TestOf("said", <<Uint16(w), Uint16(v)>>), Increment, NoStatement) :
          w \in WordNumbers, v \in WordNumbers}

Said == TestOf("said", <<Uint16(256), Uint16(1)>>)
AndOf(operands) == [type |-> "and", operands |-> operands]
OrOf(operands) == [type |-> "or", operands |-> operands]
NotOf(operand) == [type |-> "not", operand |-> operand]

\* conditions with a group in every context: and, or and not
GroupConditions ==
  {AndOf(<<IsSet, Said>>),
   AndOf(<<IsSet, AndOf(<<Said, IsSet>>)>>),
   AndOf(<<OrOf(<<IsSet, Said>>), IsSet>>),
   OrOf(<<IsSet, OrOf(<<Said, IsSet>>)>>),
   OrOf(<<AndOf(<<IsSet, Said>>), NotOf(IsSet)>>),
   NotOf(AndOf(<<IsSet, Said>>)),
   NotOf(OrOf(<<Said, IsSet>>)),
   NotOf(NotOf(Said)),
   OrOf(<<NotOf(AndOf(<<IsSet, OrOf(<<Said, IsSet>>)>>)), Said>>)}

Grouped == CompoundOver(GroupConditions, {Increment}, {Increment})

Programs ==
  SeqsUpTo(GotoKinds, MaxGotoStatements)
    \cup {<<LabelOf("x"), s>> : s \in Structured}
    \cup {<<s>> : s \in Calls}
    \cup {<<s>> : s \in Grouped}

\* a return is appended to statements unless they end with one
WithReturn(program) ==
  IF program # <<>> /\ program[Len(program)].type = "call"
       /\ program[Len(program)].func = "return"
    THEN program
    ELSE Append(program, CallOf("return", <<>>))

InitGen ==
  /\ src = <<>>
  /\ tokenLines = <<>>
  /\ line_i = 1
  /\ ifStack = <<>>
  /\ simpleMacros = NoMacros
  /\ error = NoError
  /\ exprTokens = <<>>
  /\ exprResult = Value(0, <<>>)
  /\ pc = "emit"
  /\ token_i = 1
  /\ statements \in {WithReturn(program) : program \in Programs}
  /\ FreshGenerator
  /\ NoMessages
  /\ OneInvocation
  /\ NoFunctionCall

NextGen ==
  \/ EmitStatement
  \/ CheckUndefinedLabels
  \/ RunPatch
  \/ Return

SpecGen == InitGen /\ [][NextGen]_vars

----------------------------------------------------------------------------
(* The layout of a program, read off its structure: the size of every      *)
(* statement and condition, and with it the address of every node.         *)

ParamSize(param) == IF param.type = "uint16" THEN 2 ELSE 1

RECURSIVE SumOver(_, _, _)
\* the sum of Size(seq[j]) for j < k
SumOver(Size(_), seq, k) ==
  IF k <= 1 THEN 0 ELSE Size(seq[k - 1]) + SumOver(Size, seq, k - 1)

RECURSIVE TestSize(_, _)
TestSize(expr, ctx) ==
  CASE expr.type = "call" ->
         1 + (IF testCommandsByName[expr.func].vararg THEN 1 ELSE 0)
           + SumOver(ParamSize, expr.params, Len(expr.params) + 1)
    [] expr.type = "not" -> 1 + TestSize(expr.operand, "not")
    [] expr.type \in {"and", "or"} ->
         (IF ctx = expr.type THEN 0 ELSE 2)
           + SumOver(LAMBDA e : TestSize(e, expr.type), expr.operands,
                     Len(expr.operands) + 1)

\* a condition with its two delimiters
ConditionSize(expr) == 2 + TestSize(expr, "and")

RECURSIVE StatementSize(_)
StatementSize(statement) ==
  CASE statement.type = "goto" -> 3
    [] statement.type = "call" ->
         1 + SumOver(ParamSize, statement.params, Len(statement.params) + 1)
    [] statement.type = "if" ->
         ConditionSize(statement.condition) + 2 + StatementSize(statement.thenDo)
           + (IF statement.elseDo = NoStatement
                THEN 0 ELSE 3 + StatementSize(statement.elseDo))
    [] statement.type = "while" ->
         ConditionSize(statement.condition) + 2 + StatementSize(statement.doThis) + 3
    [] statement.type = "do" ->
         StatementSize(statement.body) + ConditionSize(statement.condition) + 2 + 3
    [] statement.type = "block" ->
         SumOver(StatementSize, statement.body, Len(statement.body) + 1)
    [] OTHER -> 0

\* the statements of a program with the addresses of their first bytes
RECURSIVE Placed(_, _)
PlacedAll(body, at) ==
  UNION {Placed(body[k], at + SumOver(StatementSize, body, k)) : k \in 1..Len(body)}

Placed(statement, at) ==
  {[node |-> statement, at |-> at]} \cup
  CASE statement.type = "if" ->
         Placed(statement.thenDo, at + ConditionSize(statement.condition) + 2)
           \cup (IF statement.elseDo = NoStatement THEN {}
                 ELSE Placed(statement.elseDo,
                        at + ConditionSize(statement.condition) + 2
                           + StatementSize(statement.thenDo) + 3))
    [] statement.type = "while" ->
         Placed(statement.doThis, at + ConditionSize(statement.condition) + 2)
    [] statement.type = "do" -> Placed(statement.body, at)
    [] statement.type = "block" -> PlacedAll(statement.body, at)
    [] OTHER -> {}

\* the test calls of a condition with the addresses of their opcodes
RECURSIVE PlacedTests(_, _, _)
PlacedTests(expr, ctx, at) ==
  CASE expr.type = "call" -> {[node |-> expr, at |-> at]}
    [] expr.type = "not" -> PlacedTests(expr.operand, "not", at + 1)
    [] expr.type \in {"and", "or"} ->
         UNION {PlacedTests(expr.operands[k], expr.type,
                  at + (IF ctx = expr.type THEN 0 ELSE 1)
                     + SumOver(LAMBDA e : TestSize(e, expr.type), expr.operands, k)) :
                k \in 1..Len(expr.operands)}

\* where the condition of a placed if, while or do begins
ConditionAt(n) ==
  IF n.node.type = "do" THEN n.at + StatementSize(n.node.body) ELSE n.at

TestsOf(nodes) ==
  UNION {PlacedTests(n.node.condition, "and", ConditionAt(n) + 1) :
           n \in {m \in nodes : m.node.type \in {"if", "while", "do"}}}

\* the 16-bit two's-complement number stored low byte first at address at
Signed16(code, at) ==
  IF code[at + 1] + 256 * code[at + 2] >= 32768
    THEN code[at + 1] + 256 * code[at + 2] - 65536
    ELSE code[at + 1] + 256 * code[at + 2]

Returned == pc = "returned" /\ bytecode # NoBytecode

----------------------------------------------------------------------------
(* Gotos and labels (C3, C4).                                              *)

ProgramNodes == PlacedAll(statements, 0)

GotoNodes(nodes) == {n \in nodes : n.node.type = "goto"}

LabelNodes(nodes, label) == {n \in nodes : n.node = LabelOf(label)}

LabelAt(nodes, label) == (CHOOSE n \in LabelNodes(nodes, label) : TRUE).at

GotosResolved(nodes, code) ==
  \A n \in GotoNodes(nodes) :
    /\ code[n.at + 1] = 254
    /\ LabelNodes(nodes, n.node.label) # {}
    /\ Signed16(code, n.at + 1) = LabelAt(nodes, n.node.label) - (n.at + 3)

\* C3: in the bytecode compile returns, every goto is the byte 0xFE followed
\* by the little-endian signed 16-bit difference between the offset of its
\* label and the address after the goto's three bytes, for labels before and
\* after the goto, and every patch chained on a label's promise has run
C3_GotoOffsets ==
  Returned =>
    /\ Len(bytecode) = SumOver(StatementSize, statements, Len(statements) + 1)
    /\ GotosResolved(ProgramNodes, bytecode)
    /\ \A k \in 1..Len(complete) : complete[k].ran

GotosBefore(nodes, label) ==
  {n \in GotoNodes(nodes) : n.node.label = label /\ n.at < LabelAt(nodes, label)}

GotosAfter(nodes, label) ==
  {n \in GotoNodes(nodes) : n.node.label = label /\ n.at >= LabelAt(nodes, label)}

\* bytecode returned for a program with two gotos before their label and one
\* after it
C3_Witness ==
  /\ Returned
  /\ Cardinality(GotosBefore(ProgramNodes, "x")) >= 2
  /\ Cardinality(GotosAfter(ProgramNodes, "x")) >= 1
  /\ Len(complete) >= 2

LabelsUsed(nodes) == {n.node.label : n \in GotoNodes(nodes)}

UndefinedLabels(nodes) == {l \in LabelsUsed(nodes) : LabelNodes(nodes, l) = {}}

\* how many times a statement defines a label
RECURSIVE Definitions(_, _)
DefinitionsIn(body, label) == SumOver(LAMBDA s : Definitions(s, label), body, Len(body) + 1)

Definitions(statement, label) ==
  CASE statement.type = "label" -> IF statement.label = label THEN 1 ELSE 0
    [] statement.type = "if" ->
         Definitions(statement.thenDo, label)
           + (IF statement.elseDo = NoStatement THEN 0
              ELSE Definitions(statement.elseDo, label))
    [] statement.type = "while" -> Definitions(statement.doThis, label)
    [] statement.type = "do" -> Definitions(statement.body, label)
    [] statement.type = "block" -> DefinitionsIn(statement.body, label)
    [] OTHER -> 0

RepeatedLabels == {l \in {"x", "y"} : DefinitionsIn(statements, l) > 1}

\* the messages that name each label of the set once
RECURSIVE Orderings(_)
Orderings(S) ==
  IF S = {} THEN {<<>>}
  ELSE UNION {{<<l>> \o rest : rest \in Orderings(S \ {l})} : l \in S}

RECURSIVE Listed(_)
Listed(order) ==
  IF Len(order) = 1 THEN order[1] ELSE order[1] \o ", " \o Listed(Tail(order))

NotFoundMessages(S) ==
  {"label target(s) not found: " \o Listed(order) : order \in Orderings(S)}

AllEmitted == stmt_i > Len(statements)

----------------------------------------------------------------------------
(* Calls (C6) and structured jumps (C7).                                   *)

\* a parameter as the claim encodes it: a byte, or a word low byte first
ParamBytes(param) ==
  IF param.type = "uint16"
    THEN <<param.value % 256, (param.value \div 256) % 256>>
    ELSE <<param.value>>

RECURSIVE AllParamBytes(_)
AllParamBytes(params) ==
  IF params = <<>> THEN <<>> ELSE ParamBytes(Head(params)) \o AllParamBytes(Tail(params))

CodeAt(code, at, bytes) == SubSeq(code, at + 1, at + Len(bytes)) = bytes

ActionCallsEncoded(nodes, code) ==
  \A n \in {m \in nodes : m.node.type = "call"} :
    CodeAt(code, n.at, <<actionCommandsByName[n.node.func].code>>
                         \o AllParamBytes(n.node.params))

\* a variable-arity test carries the count of its parameters after the opcode
TestCallsEncoded(tests, code) ==
  \A n \in tests :
    CodeAt(code, n.at,
           <<testCommandsByName[n.node.func].code>>
             \o (IF testCommandsByName[n.node.func].vararg
                   THEN <<Len(n.node.params)>> ELSE <<>>)
             \o AllParamBytes(n.node.params))

\* C6 as stated: in the bytecode returned, every call is its command's opcode
\* followed by its parameters in order, a byte for a byte operand and the low
\* byte, then the high byte for a word operand, for action calls as for test
\* calls
C6_CallEncoding ==
  Returned =>
    /\ ActionCallsEncoded(ProgramNodes, bytecode)
    /\ TestCallsEncoded(TestsOf(ProgramNodes), bytecode)

\* the address a jump lands on whose offset field is at address field
LandsOn(code, field) == field + 2 + Signed16(code, field)

IfJumps(n, code, afterCondition) ==
  IF n.node.elseDo = NoStatement
    THEN /\ Signed16(code, afterCondition) = StatementSize(n.node.thenDo)
         /\ LandsOn(code, afterCondition) = n.at + StatementSize(n.node)
    ELSE /\ LandsOn(code, afterCondition)
              = afterCondition + 2 + StatementSize(n.node.thenDo) + 3
         /\ code[afterCondition + 2 + StatementSize(n.node.thenDo) + 1] = 254
         /\ LandsOn(code, afterCondition + 2 + StatementSize(n.node.thenDo) + 1)
              = n.at + StatementSize(n.node)

WhileJumps(n, code, afterCondition) ==
  /\ LandsOn(code, afterCondition) = n.at + StatementSize(n.node)
  /\ code[n.at + StatementSize(n.node) - 3 + 1] = 254
  /\ LandsOn(code, n.at + StatementSize(n.node) - 2) = n.at
  /\ code[n.at + 1] = 255

DoJumps(n, code, afterCondition) ==
  /\ CodeAt(code, afterCondition, <<3, 0, 254>>)
  /\ LandsOn(code, afterCondition + 3) = n.at
  /\ afterCondition + 5 = n.at + StatementSize(n.node)

StructuredJumps(nodes, code) ==
  \A n \in {m \in nodes : m.node.type \in {"if", "while", "do"}} :
    /\ code[ConditionAt(n) + 1] = 255
    /\ code[ConditionAt(n) + ConditionSize(n.node.condition)] = 255
    /\ CASE n.node.type = "if" ->
              IfJumps(n, code, n.at + ConditionSize(n.node.condition))
         [] n.node.type = "while" ->
              WhileJumps(n, code, n.at + ConditionSize(n.node.condition))
         [] n.node.type = "do" ->
              DoJumps(n, code, ConditionAt(n) + ConditionSize(n.node.condition))

\* C7: in the bytecode returned, the two bytes after the condition of an if
\* hold the length of the then-branch when there is no else, and otherwise
\* land on the first byte of the else-branch while the 0xFE jump after the
\* then-branch lands just after the else-branch; the offset after the
\* condition of a while lands just after the backward 0xFE jump, which lands
\* on the opening delimiter of the condition; the condition of a do is
\* followed by 0x03 0x00 and a backward 0xFE jump that lands on the first
\* byte of the body; every offset is little-endian, signed, and counted from
\* the byte after its field
C7_StructuredJumps ==
  Returned => StructuredJumps(ProgramNodes, bytecode)

\* bytecode returned for a while around an if with an else, and for a do
\* around a while
C7_Witness ==
  /\ Returned
  /\ \E n \in ProgramNodes :
       /\ n.node.type = "while"
       /\ n.node.doThis.type = "if"
       /\ n.node.doThis.elseDo # NoStatement
       /\ StatementSize(n.node.doThis.thenDo) > 0
       /\ StatementSize(n.node.doThis.elseDo) > 0

----------------------------------------------------------------------------
(* The statement parser: readTokens with tryToken and requireToken, then   *)
(* readAtomExpression, extendExpression, readExpression and readStatement. *)
(* t is the token stream: t.ts the tokens of all lines in order, each with *)
(* its line, and t.last the last line.  i is the index of the token        *)
(* readTokens yields next, a token handed back by repeatToken included.    *)
(* Each function returns what it read with the index it left, or the error *)
(* it threw.                                                               *)

\* the alphabet's tokens that match anyValueTest, varTest and flagTest
ValueTokens == {"v1", "v2", "v255", "f1", "f2", "w1", "m1"}
VarTokens == {"v1", "v2", "v255"}
FlagTokens == {"f1", "f2"}

\* token[0] and Number.parseInt(token.slice(1)) of a value token
ValuePrefix(token) ==
  CASE token \in VarTokens -> "v" [] token \in FlagTokens -> "f" [] token = "w1" -> "w"
    [] token = "m1" -> "m"

ValueNumber(token) ==
  CASE token \in {"v1", "f1", "w1", "m1"} -> 1 [] token \in {"v2", "f2"} -> 2
    [] token = "v255" -> 255

UINT8TYPE_BY_PREFIX ==
  [prefix \in {"m", "c", "v", "f", "i", "o", "s"} |->
     CASE prefix = "m" -> "message"
       [] prefix = "c" -> "controller"
       [] prefix = "v" -> "variable"
       [] prefix = "f" -> "flag"
       [] prefix = "i" -> "inventory-item"
       [] prefix = "o" -> "room-object"
       [] prefix = "s" -> "string"]

\* the alphabet's tokens that match intTest
IntTokens == NumberTokens \cup {"300"}

\* a leading zero makes the literal octal
decodeIntegerLiteral(s) ==
  CASE s = "010" -> 8 [] s = "300" -> 300 [] OTHER -> NumberOfToken(s)

\* the alphabet's tokens that begin with a double quote
StringLiteralTokens ==
  {"\"hi\"", "\"bye\"", "\"\"", "\"b\"", "\"c\"", "\"s/b\"", "\"s/c\"", "\"../c\""}

isStringLiteralToken(s) == s \in StringLiteralTokens

\* the text of a string literal, as the codes of its characters
decodeStringLiteral(s) ==
  CASE s = "\"hi\"" -> <<104, 105>>
    [] s = "\"bye\"" -> <<98, 121, 101>>
    [] s = "\"\"" -> <<>>
    [] s = "\"b\"" -> <<98>>
    [] s = "\"c\"" -> <<99>>
    [] s = "\"s/b\"" -> <<115, 47, 98>>
    [] s = "\"s/c\"" -> <<115, 47, 99>>
    [] s = "\"../c\"" -> <<46, 46, 47, 99>>

\* the alphabet's tokens that match /^[\+\-\*\/]|[<>]=?|[!=]=|\|\||&&$/,
\* /^\+\+|\-\-$/ and /^[\+\-*\/]?=$/
ExpressionOperatorTokens ==
  {"+", "-", "*", "/", "<", "<=", ">", ">=", "==", "!=", "+=", "-=", "*=", "/=", "++", "--",
   "||", "&&", "<<", ">>"}
CrementTokens == {"++", "--"}
AssignTokens == {"=", "+=", "-=", "*=", "/="}

RECURSIVE readTokens(_, _)
readTokens(lines, k) ==
  IF k > Len(lines) THEN <<>>
  ELSE [j \in 1..Len(lines[k].tokens) |->
          [token |-> lines[k].tokens[j], line |-> Location(lines[k])]]
         \o readTokens(lines, k + 1)

TokenStream(lines) ==
  [ts |-> readTokens(lines, 1),
   last |-> IF lines = <<>> THEN NoLine ELSE Location(lines[Len(lines)])]

Read(e, i) == [e |-> e, i |-> i, err |-> NoError]

ParseThrow(line, message) ==
  [e |-> NoStatement, i |-> 0, err |-> LineSyntaxError(line, message)]

\* throw new SyntaxError(message)
ParsePlainThrow(message) == [e |-> NoStatement, i |-> 0, err |-> PlainError(message)]

\* tryToken(req) returns a token: the next token is there and passes req
tryToken(t, i, req) == i <= Len(t.ts) /\ t.ts[i].token \in req

\* requireToken()
requireToken(t, i) ==
  IF i > Len(t.ts) THEN ParseThrow(t.last, "unexpected end of input")
  ELSE Read(t.ts[i], i + 1)

\* requireToken(req) for a string req
requireTokenIs(t, i, req) ==
  IF i > Len(t.ts) THEN ParseThrow(t.last, "unexpected end of input")
  ELSE IF t.ts[i].token # req
    THEN ParseThrow(t.ts[i].line, "expected " \o req \o ", got " \o t.ts[i].token)
  ELSE Read(t.ts[i], i + 1)

\* requireToken(req) for a function or a regular expression req
requireTokenMatching(t, i, req) ==
  IF i > Len(t.ts) THEN ParseThrow(t.last, "unexpected end of input")
  ELSE IF t.ts[i].token \notin req
    THEN ParseThrow(t.ts[i].line, "unexpected token: " \o t.ts[i].token)
  ELSE Read(t.ts[i], i + 1)

\* requireToken(req) after r is read: what r read, with the index after req
thenRequire(t, r, req) ==
  IF r.err # NoError THEN r
  ELSE IF requireTokenIs(t, r.i, req).err # NoError THEN requireTokenIs(t, r.i, req)
  ELSE Read(r.e, r.i + 1)

\* while (tryToken('.')) name += '.' + requireToken(isKeywordToken).token
RECURSIVE readDottedName(_, _, _)
readDottedName(t, name, i) ==
  IF ~tryToken(t, i, {"."}) THEN Read(name, i)
  ELSE IF requireTokenMatching(t, i + 1, KeywordTokens).err # NoError
    THEN requireTokenMatching(t, i + 1, KeywordTokens)
  ELSE readDottedName(t, name \o "." \o t.ts[i + 1].token, i + 2)

IsNumber(expr) == expr.type = "uint8" /\ expr.meaning = "number"
IsVariable(expr) == expr.type = "uint8" /\ expr.meaning = "variable"

\* readAtomExpression for a value token
valueOf(token) ==
  IF ValuePrefix(token) = "w"
    THEN Uint16(ValueNumber(token))
    ELSE Uint8(UINT8TYPE_BY_PREFIX[ValuePrefix(token)], ValueNumber(token))

\* readAtomExpression for '!', once its operand is read
notOf(r) ==
  IF r.err # NoError THEN r
  ELSE IF IsNumber(r.e) THEN Read(Uint8("number", IF r.e.value = 0 THEN 1 ELSE 0), r.i)
  ELSE Read([type |-> "not", operand |-> r.e], r.i)

\* readAtomExpression for '*', once its operand is read
indirectOf(line, r) ==
  IF r.err # NoError THEN r
  ELSE IF ~IsVariable(r.e) THEN ParseThrow(line, "invalid indirect value access")
  ELSE Read(Uint8("variable-value", r.e.value), r.i)

\* readAtomExpression for a string literal: the literals that follow are
\* appended; the literal is kept as the tokens it is made of
RECURSIVE appendLiterals(_, _, _)
appendLiterals(t, parts, i) ==
  IF tryToken(t, i, StringLiteralTokens)
    THEN appendLiterals(t, Append(parts, t.ts[i].token), i + 1)
    ELSE Read([type |-> "literal", literal |-> parts], i)

RECURSIVE decodeLiteralParts(_)
decodeLiteralParts(parts) ==
  IF parts = <<>> THEN <<>>
  ELSE decodeStringLiteral(Head(parts)) \o decodeLiteralParts(Tail(parts))

\* the vararg branch of a test call: every parameter must be a word (the
\* message for a word that is not in wordNumbers is left without the word)
RECURSIVE wordParams(_, _, _, _, _)
wordParams(line, params, k, words, i) ==
  IF k > Len(params) THEN Read(words, i)
  ELSE IF params[k].type = "literal"
    THEN IF decodeLiteralParts(params[k].literal) \notin DOMAIN wordNumbers
           THEN ParseThrow(line, "word not found in dictionary: ")
           ELSE wordParams(line, params, k + 1,
                  Append(words, Uint16(wordNumbers[decodeLiteralParts(params[k].literal)])), i)
  ELSE IF params[k].type = "uint16" /\ params[k].meaning = "word"
    THEN wordParams(line, params, k + 1, Append(words, params[k]), i)
  ELSE ParseThrow(line, "parameters must be words")

\* the other branch: the count of the parameters, then the kind of each
RECURSIVE checkedParams(_, _, _, _, _, _)
checkedParams(line, func, testParams, params, k, i) ==
  IF Len(params) # Len(testParams)
    THEN ParseThrow(line, "wrong number of parameters to " \o func \o "(): expected "
                            \o ToString(Len(testParams)) \o ", got " \o ToString(Len(params)))
  ELSE IF k > Len(params) THEN Read(params, i)
  ELSE IF params[k].type # "uint8" \/ params[k].meaning # testParams[k]
    THEN ParseThrow(line, "invalid parameter " \o ToString(k) \o " to " \o func
                            \o "(): expected " \o testParams[k] \o ", got "
                            \o (IF params[k].type = "uint8" THEN params[k].meaning
                                ELSE params[k].type))
  ELSE checkedParams(line, func, testParams, params, k + 1, i)

withFunc(func, r) ==
  IF r.err # NoError THEN r ELSE Read([type |-> "call", func |-> func, params |-> r.e], r.i)

\* readAtomExpression for a function name, once its parameters r are read
testCall(line, func, r) ==
  IF r.err # NoError THEN r
  ELSE IF func \notin DOMAIN testCommandsByName
    THEN IF func = "__OR__" THEN Read([type |-> "or", operands |-> r.e], r.i)
         ELSE ParseThrow(line, "unknown function: " \o func)
  ELSE IF testCommandsByName[func].vararg
    THEN withFunc(func, wordParams(line, r.e, 1, <<>>, r.i))
  ELSE withFunc(func, checkedParams(line, func, testCommandsByName[func].params, r.e, 1, r.i))

\* a table that leaves every comparator as it is
KEEP_COMPARATOR == [op \in {"<", "<=", ">", ">=", "==", "!="} |-> op]

SWAP_COMPARATOR ==
  [op \in {"<", "<=", ">", ">=", "==", "!="} |->
     CASE op = "<" -> ">" [] op = "<=" -> ">=" [] op = ">" -> "<" [] op = ">=" -> "<="
       [] op = "==" -> "==" [] op = "!=" -> "!="]

NEGATE_COMPARATOR ==
  [op \in {"<", "<=", ">", ">=", "==", "!="} |->
     CASE op = "<" -> ">=" [] op = "<=" -> ">" [] op = ">" -> "<=" [] op = ">=" -> "<"
       [] op = "==" -> "!=" [] op = "!=" -> "=="]

\* case '+' '-' '*' '/' of extendExpression, once the right operand is read;
\* Math.imul(a, b) & 0xff is the low byte of the product
mathOf(expression, operator, r) ==
  IF r.err # NoError THEN r
  ELSE IF IsNumber(expression) /\ IsNumber(r.e)
    THEN Read(Uint8("number",
                CASE operator = "+" -> (expression.value + r.e.value) % 256
                  [] operator = "-" -> (expression.value - r.e.value) % 256
                  [] operator = "*" -> (expression.value * r.e.value) % 256
                  [] operator = "/" -> expression.value \div r.e.value), r.i)
  ELSE Read([type |-> "math", operator |-> operator, operands |-> <<expression, r.e>>], r.i)

ComparisonHolds(comparator, a, b) ==
  CASE comparator = "==" -> a = b
    [] comparator = "!=" -> a # b
    [] comparator = "<" -> a < b
    [] comparator = "<=" -> a <= b
    [] comparator = ">" -> a > b
    [] comparator = ">=" -> a >= b

ComparisonFunc(comparator, right) ==
  (CASE comparator = "==" -> "equal" [] comparator = ">" -> "greater"
     [] comparator = "<" -> "less")
    \o (IF right.meaning = "variable" THEN "v" ELSE "n")

\* the comparison case once left and right are in their places
compared(comparator, left, right, line, i) ==
  IF left.type # "uint8" \/ right.type # "uint8"
       \/ ~(\/ left.meaning = "variable" /\ right.meaning \in {"number", "variable"}
            \/ left.meaning = "number" /\ right.meaning = "number")
    THEN ParseThrow(line, "invalid comparator: can only compare variables and integer literals")
  ELSE IF left.meaning = "number"
    THEN Read(Uint8("number",
                IF ComparisonHolds(comparator, left.value, right.value) THEN 1 ELSE 0), i)
  ELSE IF comparator \in {"!=", "<=", ">="}
    THEN Read([type |-> "not",
               operand |-> TestOf(ComparisonFunc(NEGATE_COMPARATOR[comparator], right),
                                  <<left, right>>)], i)
  ELSE Read(TestOf(ComparisonFunc(comparator, right), <<left, right>>), i)

\* case '==' ... '>=' of extendExpression, once the right operand is read
comparisonOf(expression, op, r) ==
  IF r.err # NoError THEN r
  ELSE IF IsNumber(expression)
    THEN compared(SWAP_COMPARATOR[op.token], r.e, expression, op.line, r.i)
  ELSE compared(op.token, expression, r.e, op.line, r.i)

RECURSIVE readAtomExpression(_, _)
RECURSIVE readExpression(_, _, _)
RECURSIVE extendExpression(_, _, _, _)
RECURSIVE extendTurn(_, _, _, _, _)
RECURSIVE logicalOf(_, _, _, _)
RECURSIVE readParams(_, _, _)
RECURSIVE readOperands(_, _, _, _)

ConditionalOf(condition, thenValue, elseValue) ==
  [type |-> "conditional", condition |-> condition, thenValue |-> thenValue,
   elseValue |-> elseValue]

\* case '?', once the expression after the ':' is read
conditionalOf(expression, thenExpr, elseRead) ==
  IF elseRead.err # NoError THEN elseRead
  ELSE IF IsNumber(expression)
    THEN Read(IF expression.value # 0 THEN thenExpr ELSE elseRead.e, elseRead.i)
  ELSE Read(ConditionalOf(expression, thenExpr, elseRead.e), elseRead.i)

\* case '?', once the expression after the '?' is read
thenRead(t, expression, r) ==
  IF r.err # NoError THEN r
  ELSE IF requireTokenIs(t, r.i, ":").err # NoError THEN requireTokenIs(t, r.i, ":")
  ELSE conditionalOf(expression, r.e, readExpression(t, r.i + 1, OP_PRECEDENCE["?"]))

\* case '||' and '&&': while (tryToken(op.token)) operands.push(...), once
\* the operand r is read
readOperands(t, opToken, operands, r) ==
  IF r.err # NoError THEN r
  ELSE IF tryToken(t, r.i, {opToken})
    THEN readOperands(t, opToken, Append(operands, r.e),
                      readExpression(t, r.i + 1, OP_PRECEDENCE[opToken] + 1))
  ELSE Read(Append(operands, r.e), r.i)

\* no operand decides the whole
NothingDeciding(opToken, operands) == {}

\* the operands that decide the whole: a number 0 under &&, another number
\* under ||
Deciding(opToken, operands) ==
  {k \in DOMAIN operands :
     IsNumber(operands[k]) /\ ((operands[k].value = 0) <=> (opToken = "&&"))}

Last(S) == CHOOSE k \in S : \A j \in S : j <= k

NotNumber(expr) == ~IsNumber(expr)

\* op = tryToken(...) at the foot of the do loop, and the loop's condition;
\* repeatToken is set already when the loop is left here
extended(t, level, r) ==
  IF r.err # NoError THEN r
  ELSE IF tryToken(t, r.i, ExpressionOperatorTokens)
    THEN extendTurn(t, r.e, level, t.ts[r.i], r.i + 1)
  ELSE Read(r.e, r.i)

\* one turn of the do loop with op read; the break hands op back
extendTurn(t, expression, level, op, i) ==
  IF op.token \in DOMAIN OP_PRECEDENCE /\ OP_PRECEDENCE[op.token] < level
    THEN Read(expression, i - 1)
  ELSE IF op.token \in {"+", "-", "*", "/"}
    THEN extended(t, level,
           mathOf(expression, op.token,
                  readExpression(t, i, OP_PRECEDENCE[op.token] + 1)))
  ELSE IF op.token \in {"==", "!=", "<", "<=", ">", ">="}
    THEN extended(t, level,
           comparisonOf(expression, op,
                        readExpression(t, i, OP_PRECEDENCE[op.token] + 1)))
  ELSE IF op.token = "?"
    THEN extended(t, level, thenRead(t, expression, readExpression(t, i, 0)))
  ELSE IF op.token \in {"||", "&&"}
    THEN logicalOf(t, level, op.token,
           readOperands(t, op.token, <<expression>>,
                        readExpression(t, i, OP_PRECEDENCE[op.token] + 1)))
  ELSE ParsePlainThrow("unexpected operator: " \o op.token)

\* case '||' and '&&', once the operands are read: the last deciding number
\* is returned; the other numbers are dropped, and no operand or one left
\* is returned in place of the expression
logicalOf(t, level, opToken, r) ==
  IF r.err # NoError THEN r
  ELSE IF Deciding(opToken, r.e) # {} THEN Read(r.e[Last(Deciding(opToken, r.e))], r.i)
  ELSE IF Len(SelectSeq(r.e, NotNumber)) = 0
    THEN Read(Uint8("number", IF opToken = "&&" THEN 1 ELSE 0), r.i)
  ELSE IF Len(SelectSeq(r.e, NotNumber)) = 1 THEN Read(SelectSeq(r.e, NotNumber)[1], r.i)
  ELSE extended(t, level,
         Read([type |-> IF opToken = "||" THEN "or" ELSE "and",
               operands |-> SelectSeq(r.e, NotNumber)], r.i))

extendExpression(t, baseExpression, level, i) ==
  IF ~tryToken(t, i, ExpressionOperatorTokens) THEN Read(baseExpression, i)
  ELSE extendTurn(t, baseExpression, level, t.ts[i], i + 1)

\* the parameters of a call after its '(': do readExpression while ','
paramRead(t, params, r) ==
  IF r.err # NoError THEN r
  ELSE IF tryToken(t, r.i, {","}) THEN readParams(t, r.i + 1, Append(params, r.e))
  ELSE thenRequire(t, Read(Append(params, r.e), r.i), ")")

readParams(t, i, params) == paramRead(t, params, readExpression(t, i, 0))

\* readAtomExpression for a function name, read with its dots
atomCall(t, line, named) ==
  IF named.err # NoError THEN named
  ELSE IF ~tryToken(t, named.i, {"("})
    THEN ParseThrow(line, IF named.e \in DOMAIN testCommandsByName
                            THEN "invalid use of function " \o named.e \o "()"
                            ELSE "unknown value: " \o named.e)
  ELSE IF tryToken(t, named.i + 1, {")"})
    THEN testCall(line, named.e, Read(<<>>, named.i + 2))
  ELSE testCall(line, named.e, readParams(t, named.i + 1, <<>>))

\* readAtomExpression with its token read
atomFrom(t, token, line, i) ==
  IF isKeywordToken(token)
    THEN IF token \in ValueTokens THEN Read(valueOf(token), i)
         ELSE atomCall(t, line, readDottedName(t, token, i))
  ELSE IF token \in IntTokens THEN Read(Uint8("number", decodeIntegerLiteral(token)), i)
  ELSE IF token = "!" THEN notOf(readAtomExpression(t, i))
  ELSE IF token = "+" THEN readAtomExpression(t, i)
  ELSE IF token = "-" THEN ParseThrow(line, "negative values are not supported")
  ELSE IF token = "*" THEN indirectOf(line, readAtomExpression(t, i))
  ELSE IF token = "(" THEN thenRequire(t, readExpression(t, i, 0), ")")
  ELSE IF isStringLiteralToken(token) THEN appendLiterals(t, <<token>>, i)
  ELSE ParseThrow(line, "unexpected content")

readAtomExpression(t, i) ==
  IF i > Len(t.ts) THEN requireToken(t, i)
  ELSE atomFrom(t, t.ts[i].token, t.ts[i].line, i + 1)

extendFrom(t, level, r) ==
  IF r.err # NoError THEN r ELSE extendExpression(t, r.e, level, r.i)

readExpression(t, i, level) == extendFrom(t, level, readAtomExpression(t, i))

VarRef(token) == Uint8("variable", ValueNumber(token))

\* case 'return'
returnStatement(t, i) ==
  IF tryToken(t, i, {"("})
    THEN thenRequire(t, thenRequire(t, Read(CallOf("return", <<>>), i + 1), ")"), ";")
    ELSE thenRequire(t, Read(CallOf("return", <<>>), i), ";")

\* case '*', once the right-hand side and its ';' are read: any other
\* right-hand side throws at the line of the token requireToken() reads next
indirectAssigned(t, varRef, r) ==
  IF r.err # NoError THEN r
  ELSE IF IsVariable(r.e) THEN Read(CallOf("lindirectv", <<VarRef(varRef), r.e>>), r.i)
  ELSE IF IsNumber(r.e) THEN Read(CallOf("lindirectn", <<VarRef(varRef), r.e>>), r.i)
  ELSE IF requireToken(t, r.i).err # NoError THEN requireToken(t, r.i)
  ELSE ParseThrow(t.ts[r.i].line,
         "invalid indirect variable assignment: value must be a number literal or another variable")

\* case '*'
indirectStatement(t, i) ==
  IF requireTokenMatching(t, i, VarTokens).err # NoError
    THEN requireTokenMatching(t, i, VarTokens)
  ELSE IF requireTokenIs(t, i + 1, "=").err # NoError THEN requireTokenIs(t, i + 1, "=")
  ELSE indirectAssigned(t, t.ts[i].token, thenRequire(t, readExpression(t, i + 2, 0), ";"))

funcBase(assignToken) ==
  CASE assignToken = "+=" -> "add" [] assignToken = "-=" -> "sub"
    [] assignToken = "*=" -> "mul." [] assignToken = "/=" -> "div."

\* the branch of a variable after its assignToken, once the right-hand side
\* and its ';' are read
assigned(varRef, assignToken, r) ==
  IF r.err # NoError THEN r
  ELSE IF r.e.type = "uint8" /\ assignToken.token = "=" /\ r.e.meaning = "number"
    THEN Read(CallOf("assignn", <<varRef, r.e>>), r.i)
  ELSE IF r.e.type = "uint8" /\ assignToken.token = "=" /\ r.e.meaning = "variable"
    THEN Read(CallOf("assignv", <<varRef, r.e>>), r.i)
  ELSE IF r.e.type = "uint8" /\ assignToken.token = "=" /\ r.e.meaning = "variable-value"
    THEN Read(CallOf("rindirect", <<varRef, Uint8("variable", r.e.value)>>), r.i)
  ELSE IF r.e.type = "uint8" /\ assignToken.token # "=" /\ r.e.meaning = "number"
    THEN Read(CallOf(funcBase(assignToken.token) \o "n", <<varRef, r.e>>), r.i)
  ELSE IF r.e.type = "uint8" /\ assignToken.token # "=" /\ r.e.meaning = "variable"
    THEN Read(CallOf(funcBase(assignToken.token) \o "v", <<varRef, r.e>>), r.i)
  ELSE ParseThrow(assignToken.line, "invalid assignment")

\* if (varTest.test(token))
varStatement(t, token, i) ==
  IF tryToken(t, i, CrementTokens)
    THEN thenRequire(t, Read(CallOf(IF t.ts[i].token = "++" THEN "increment" ELSE "decrement",
                                    <<VarRef(token)>>), i + 1), ";")
  ELSE IF tryToken(t, i, AssignTokens)
    THEN assigned(VarRef(token), t.ts[i], thenRequire(t, readExpression(t, i + 1, 0), ";"))
  ELSE IF requireToken(t, i).err # NoError THEN requireToken(t, i)
  ELSE ParseThrow(t.ts[i].line, "unexpected content")

\* the branch of a flag, once the right-hand side and its ';' are read
flagAssigned(flag, r) ==
  IF r.err # NoError THEN r
  ELSE IF r.e.type = "not" /\ r.e.operand = flag
    THEN Read(CallOf("toggle", <<r.e.operand>>), r.i)
  ELSE IF IsNumber(r.e)
    THEN Read(CallOf(IF r.e.value # 0 THEN "set" ELSE "reset", <<flag>>), r.i)
  ELSE Read(IfOf(r.e, CallOf("set", <<flag>>), CallOf("reset", <<flag>>)), r.i)

\* if (flagTest.test(token))
flagStatement(t, token, i) ==
  IF requireTokenIs(t, i, "=").err # NoError THEN requireTokenIs(t, i, "=")
  ELSE flagAssigned(Uint8("flag", ValueNumber(token)),
                    thenRequire(t, readExpression(t, i + 1, 0), ";"))

\* messages, messageNumbers and nextFreeMessageNumber as a call statement
\* finds them
Tables ==
  [messages |-> messages, messageNumbers |-> messageNumbers,
   next |-> nextFreeMessageNumber]

\* typeof messages[n] === 'string'
IsText(list, n) == n + 1 <= Len(list) /\ list[n + 1] # NoMessage

\* while (typeof messages[nextFreeMessageNumber] === 'string')
\*   nextFreeMessageNumber++
RECURSIVE freeNumber(_, _)
freeNumber(list, n) == IF IsText(list, n) THEN freeNumber(list, n + 1) ELSE n

\* messageNumbers.set(strLiteral, nextFreeMessageNumber);
\* messages[nextFreeMessageNumber++] = strLiteral
Allocated(tables, n, strLiteral) ==
  [messages |-> SetMessage(tables.messages, n, strLiteral),
   messageNumbers |-> (strLiteral :> n) @@ tables.messageNumbers,
   next |-> n + 1]

CallRead(e, i, tables) == [e |-> e, i |-> i, err |-> NoError, tables |-> tables]

\* the for loop over commandParams from param_i = k - 1 on: a literal is
\* replaced by its number, any other parameter is passed over (a message
\* is left without the literal it names)
RECURSIVE literalsResolved(_, _, _, _, _, _, _)
literalResolved(line, func, commandParams, params, k, i, tables, strLiteral) ==
  IF commandParams[k] = "message"
    THEN IF strLiteral \in DOMAIN tables.messageNumbers
           THEN literalsResolved(line, func, commandParams,
                  [params EXCEPT ![k] = Uint8("message", tables.messageNumbers[strLiteral])],
                  k + 1, i, tables)
           ELSE literalsResolved(line, func, commandParams,
                  [params EXCEPT
                     ![k] = Uint8("message", freeNumber(tables.messages, tables.next))],
                  k + 1, i,
                  Allocated(tables, freeNumber(tables.messages, tables.next), strLiteral))
  ELSE IF commandParams[k] = "word"
    THEN IF strLiteral \notin DOMAIN wordNumbers
           THEN ParseThrow(line, "word not found in dictionary: ")
           ELSE literalsResolved(line, func, commandParams,
                  [params EXCEPT ![k] = Uint16(wordNumbers[strLiteral])], k + 1, i, tables)
  ELSE IF commandParams[k] = "inventory-item"
    THEN IF strLiteral \notin DOMAIN itemNumbers
           THEN ParseThrow(line, "unknown inventory item: ")
           ELSE literalsResolved(line, func, commandParams,
                  [params EXCEPT ![k] = Uint8("inventory-item", itemNumbers[strLiteral])],
                  k + 1, i, tables)
  ELSE ParseThrow(line, "parameter " \o ToString(k) \o " for " \o func
                          \o "() -- expected " \o commandParams[k] \o ", got ")

literalsResolved(line, func, commandParams, params, k, i, tables) ==
  IF k > Len(commandParams) THEN CallRead(CallOf(func, params), i, tables)
  ELSE IF params[k].type # "literal"
    THEN literalsResolved(line, func, commandParams, params, k + 1, i, tables)
  ELSE IF \E j \in DOMAIN params[k].literal : ~isStringLiteralToken(params[k].literal[j])
    THEN ParseThrow(line, "parameter " \o ToString(k) \o " for " \o func
                            \o "() -- expected " \o commandParams[k] \o ", got ")
  ELSE literalResolved(line, func, commandParams, params, k, i, tables,
                       decodeLiteralParts(params[k].literal))

\* a call statement once its parameters and its ';' are read
actionCall(line, func, r) ==
  IF r.err # NoError THEN r
  ELSE IF func \notin DOMAIN actionCommandsByName
    THEN ParseThrow(line, "unknown function: " \o func \o "()")
  ELSE IF actionCommandsByName[func].vararg THEN Read(CallOf(func, r.e), r.i)
  ELSE IF Len(r.e) # Len(actionCommandsByName[func].params)
    THEN ParseThrow(line, "wrong number of parameters for " \o func \o "() - expected "
                            \o ToString(Len(actionCommandsByName[func].params))
                            \o ", got " \o ToString(Len(r.e)))
  ELSE literalsResolved(line, func, actionCommandsByName[func].params, r.e, 1, r.i, Tables)

\* a statement that begins with a name, read with its dots: a label or a call
namedStatement(t, line, named) ==
  IF named.err # NoError THEN named
  ELSE IF tryToken(t, named.i, {":"}) THEN Read(LabelOf(named.e), named.i + 1)
  ELSE IF requireTokenIs(t, named.i, "(").err # NoError
    THEN requireTokenIs(t, named.i, "(")
  ELSE IF tryToken(t, named.i + 1, {")"})
    THEN actionCall(line, named.e, thenRequire(t, Read(<<>>, named.i + 2), ";"))
  ELSE actionCall(line, named.e, thenRequire(t, readParams(t, named.i + 1, <<>>), ";"))

RECURSIVE booleanify(_)
\* a bare flag is isset(flag), a bare variable issetv(variable)
booleanify(expr) ==
  CASE expr.type \in {"and", "or"} ->
         [type |-> expr.type,
          operands |-> [k \in DOMAIN expr.operands |-> booleanify(expr.operands[k])]]
    [] expr.type = "not" -> [type |-> "not", operand |-> booleanify(expr.operand)]
    [] expr.type = "uint8" /\ expr.meaning = "flag" -> TestOf("isset", <<expr>>)
    [] expr.type = "uint8" /\ expr.meaning = "variable" -> TestOf("issetv", <<expr>>)
    [] OTHER -> expr

RECURSIVE readStatement(_, _)

\* case 'if', once both branches are read: a condition that is a number
\* leaves the branch it selects
ifFolded(condition, thenDo, elseDo, i) ==
  IF IsNumber(condition)
    THEN IF condition.value = 0
           THEN Read(IF elseDo = NoStatement THEN [type |-> "empty"] ELSE elseDo, i)
           ELSE Read(thenDo, i)
  ELSE Read(IfOf(condition, thenDo, elseDo), i)

ifElseRead(condition, thenDo, elseBranch) ==
  IF elseBranch.err # NoError THEN elseBranch
  ELSE ifFolded(condition, thenDo, elseBranch.e, elseBranch.i)

\* const elseDo = tryToken('else') ? readStatement() : null
ifThenRead(t, condition, thenBranch) ==
  IF thenBranch.err # NoError THEN thenBranch
  ELSE IF tryToken(t, thenBranch.i, {"else"})
    THEN ifElseRead(condition, thenBranch.e, readStatement(t, thenBranch.i + 1))
  ELSE ifFolded(condition, thenBranch.e, NoStatement, thenBranch.i)

ifConditionRead(t, conditionRead) ==
  IF conditionRead.err # NoError THEN conditionRead
  ELSE ifThenRead(t, booleanify(conditionRead.e), readStatement(t, conditionRead.i))

\* case 'if'; the branches of the model's sources use no string literal
ifStatement(t, i) ==
  IF requireTokenIs(t, i, "(").err # NoError THEN requireTokenIs(t, i, "(")
  ELSE ifConditionRead(t, thenRequire(t, readExpression(t, i + 1, 0), ")"))

\* readStatement with its token read: the cases 'if', 'return', ';' and '*'
\* of the switch, the branches of a variable and of a flag, the check for a
\* keyword, and the label or call a name begins.  The statements of the
\* model's sources begin with no other token.
statementFrom(t, token, line, i) ==
  CASE token = "return" -> returnStatement(t, i)
    [] token = "if" -> ifStatement(t, i)
    [] token = ";" -> Read([type |-> "empty"], i)
    [] token = "*" -> indirectStatement(t, i)
    [] token \in VarTokens -> varStatement(t, token, i)
    [] token \in FlagTokens -> flagStatement(t, token, i)
    [] ~isKeywordToken(token) -> ParseThrow(line, "unexpected content")
    [] OTHER -> namedStatement(t, line, readDottedName(t, token, i))

readStatement(t, i) ==
  IF i > Len(t.ts) THEN requireToken(t, i)
  ELSE statementFrom(t, t.ts[i].token, t.ts[i].line, i + 1)

----------------------------------------------------------------------------
(* Hoisting: a conditional inside an expression is moved outwards until it *)
(* is the condition of an if, a while or a do, and flattened there.        *)

RECURSIVE hoistConditionalExpression(_)
RECURSIVE hoistOperand(_, _)
RECURSIVE negateCondition(_)
RECURSIVE flattenHoistedConditional(_)
RECURSIVE hoistConditionalStatement(_)
RECURSIVE hoistParam(_, _)

OperandsOf(expr) == IF expr.type = "call" THEN expr.params ELSE expr.operands

WithOperand(expr, k, operand) ==
  IF expr.type = "call" THEN [expr EXCEPT !.params[k] = operand]
  ELSE [expr EXCEPT !.operands[k] = operand]

\* thenOps[i] = hoisted.thenValue, elseOps[i] = hoisted.elseValue
hoistedOperand(expr, k, hoisted) ==
  IF hoisted.type = "conditional"
    THEN ConditionalOf(hoisted.condition,
           hoistConditionalExpression(WithOperand(expr, k, hoisted.thenValue)),
           hoistConditionalExpression(WithOperand(expr, k, hoisted.elseValue)))
  ELSE hoistOperand(expr, k + 1)

\* the for loop of the cases 'and', 'or', 'call' and 'math'
hoistOperand(expr, k) ==
  IF k > Len(OperandsOf(expr)) THEN expr
  ELSE hoistedOperand(expr, k, hoistConditionalExpression(OperandsOf(expr)[k]))

hoistedNot(expr, hoisted) ==
  IF hoisted.type = "conditional"
    THEN ConditionalOf(hoisted.condition,
                       [type |-> "not", operand |-> hoisted.thenValue],
                       [type |-> "not", operand |-> hoisted.elseValue])
  ELSE expr

hoistConditionalExpression(expr) ==
  CASE expr.type \in {"literal", "uint8", "uint16"} -> expr
    [] expr.type = "conditional" ->
         ConditionalOf(hoistConditionalExpression(expr.condition),
                       hoistConditionalExpression(expr.thenValue),
                       hoistConditionalExpression(expr.elseValue))
    [] expr.type \in {"and", "or", "call", "math"} -> hoistOperand(expr, 1)
    [] expr.type = "not" -> hoistedNot(expr, hoistConditionalExpression(expr.operand))

negateCondition(expr) ==
  CASE expr.type = "and" ->
         [type |-> "or",
          operands |-> [k \in DOMAIN expr.operands |-> negateCondition(expr.operands[k])]]
    [] expr.type = "or" ->
         [type |-> "and",
          operands |-> [k \in DOMAIN expr.operands |-> negateCondition(expr.operands[k])]]
    [] expr.type = "not" -> expr.operand
    [] expr.type = "conditional" ->
         ConditionalOf(expr.condition, negateCondition(expr.thenValue),
                       negateCondition(expr.elseValue))
    [] OTHER -> [type |-> "not", operand |-> expr]

\* ...(value.type === 'and' ? value.operands : [value])
Spread(value) == IF value.type = "and" THEN value.operands ELSE <<value>>

\* an Or whose second And repeats the condition
flattenedUnnegated(condition, thenValue, elseValue) ==
  [type |-> "or",
   operands |-> << [type |-> "and", operands |-> <<condition>> \o Spread(thenValue)],
                   [type |-> "and", operands |-> <<condition>> \o Spread(elseValue)] >>]

flattened(condition, thenValue, elseValue) ==
  [type |-> "or",
   operands |-> << [type |-> "and", operands |-> <<condition>> \o Spread(thenValue)],
                   [type |-> "and",
                    operands |-> <<negateCondition(condition)>> \o Spread(elseValue)] >>]

flattenHoistedConditional(expression) ==
  IF expression.type = "conditional"
    THEN flattened(flattenHoistedConditional(expression.condition),
                   flattenHoistedConditional(expression.thenValue),
                   flattenHoistedConditional(expression.elseValue))
  ELSE expression

\* the condition of an if, a while or a do
hoistedCondition(condition, hoisted) ==
  IF hoisted.type = "conditional" THEN flattenHoistedConditional(hoisted) ELSE condition

hoistedParam(statement, k, hoisted) ==
  IF hoisted.type = "conditional"
    THEN IfOf(hoisted.condition,
              hoistConditionalStatement([statement EXCEPT !.params[k] = hoisted.thenValue]),
              hoistConditionalStatement([statement EXCEPT !.params[k] = hoisted.elseValue]))
  ELSE hoistParam(statement, k + 1)

\* the for loop of the case 'call'
hoistParam(statement, k) ==
  IF k > Len(statement.params) THEN statement
  ELSE hoistedParam(statement, k, hoistConditionalExpression(statement.params[k]))

hoistConditionalStatement(statement) ==
  CASE statement.type = "block" ->
         BlockOf([k \in DOMAIN statement.body |->
                    hoistConditionalStatement(statement.body[k])])
    [] statement.type = "call" -> hoistParam(statement, 1)
    [] statement.type = "if" ->
         IfOf(hoistedCondition(statement.condition,
                               hoistConditionalExpression(statement.condition)),
              hoistConditionalStatement(statement.thenDo),
              IF statement.elseDo = NoStatement THEN NoStatement
              ELSE hoistConditionalStatement(statement.elseDo))
    [] statement.type = "while" ->
         WhileOf(hoistedCondition(statement.condition,
                                  hoistConditionalExpression(statement.condition)),
                 hoistConditionalStatement(statement.doThis))
    [] statement.type = "do" ->
         DoOf(hoistConditionalStatement(statement.body),
              hoistedCondition(statement.condition,
                               hoistConditionalExpression(statement.condition)))
    [] OTHER -> statement

----------------------------------------------------------------------------
(* The parser as compile runs it: the loop that reads the statements, and  *)
(* the return it appends.                                                  *)

Stream == TokenStream(tokenLines)

\* the tables a statement read leaves
TablesAfter(r) == IF "tables" \in DOMAIN r THEN r.tables ELSE Tables

Parsed(r) ==
  /\ IF r.err = NoError
       THEN /\ statements' = Append(statements, hoistConditionalStatement(r.e))
            /\ token_i' = r.i
            /\ UNCHANGED <<pc, error>>
       ELSE /\ Throw(r.err)
            /\ UNCHANGED <<token_i, statements>>
  /\ messages' = TablesAfter(r).messages
  /\ messageNumbers' = TablesAfter(r).messageNumbers
  /\ nextFreeMessageNumber' = TablesAfter(r).next

\* while (tryToken()) { repeatToken = true;
\*   statements.push(hoistConditionalStatement(readStatement())) }, one turn
ReadStatement ==
  /\ pc = "done"
  /\ token_i <= Len(Stream.ts)
  /\ Parsed(readStatement(Stream, token_i))
  /\ UNCHANGED <<stmt_i, buf, labelPos, labelPromises, labelListeners, settled, complete,
                 bytecode, ppVars, exprVars, wordNumbers, itemNumbers, messageOffsets,
                 messageBlock, callVars>>

\* the loop ends: a return is appended unless the last statement is one
EndOfStatements ==
  /\ pc = "done"
  /\ token_i > Len(Stream.ts)
  /\ statements' = WithReturn(statements)
  /\ pc' = "emit"
  /\ UNCHANGED <<error, token_i, stmt_i, buf, labelPos, labelPromises, labelListeners,
                 settled, complete, bytecode, ppVars, exprVars, msgVars, callVars>>

\* longest source made of assignment statements, one to a line
MaxAssignmentLines == 2

AssignmentLineKinds ==
  {<<"v1", "=", "5", ";">>, <<"v1", "=", "0", ";">>, <<"v2", "=", "v1", ";">>,
   <<"v1", "=", "*", "v2", ";">>, <<"v1", "=", "1", "+", "2", ";">>,
   <<"*", "v1", "=", "v2", ";">>, <<"*", "v1", "=", "5", ";">>,
   <<"v1", "++", ";">>, <<"v2", "--", ";">>, <<"return", ";">>, <<";">>, <<>>,
   <<"v1", "=", ";">>, <<"v1", "5", ";">>,
   <<"v1", "+=", "*", "v2", ";">>, <<"v1", "=", "f1", ";">>, <<"v1", "=", "w1", ";">>,
   <<"v1", "=", "\"hi\"", ";">>, <<"v1", "=", "v2", "+", "1", ";">>,
   <<"v1", "=", "isset", "(", "f1", ")", ";">>, <<"v1", "=", "v2", "==", "5", ";">>,
   <<"v1", "=", "!", "v2", ";">>, <<"*", "v1", "=", "f1", ";">>,
   <<"*", "v1", "=", "*", "v2", ";">>}
  \cup {<<"v1", op, rhs, ";">> : op \in {"+=", "-=", "*=", "/="}, rhs \in {"5", "v2"}}

AssignmentSources == SeqsUpTo(AssignmentLineKinds, MaxAssignmentLines)

\* compile with the directive loop done on a source that has no directive
InitParse ==
  /\ src \in AssignmentSources
  /\ tokenLines = TokenLinesOf("main", src)
  /\ line_i = Len(src) + 1
  /\ ifStack = <<>>
  /\ simpleMacros = NoMacros
  /\ pc = "done"
  /\ error = NoError
  /\ exprTokens = <<>>
  /\ exprResult = Value(0, <<>>)
  /\ NothingParsed
  /\ NoMessages
  /\ OneInvocation
  /\ NoFunctionCall

NextParse == ReadStatement \/ EndOfStatements

SpecParse == InitParse /\ [][NextParse]_vars

----------------------------------------------------------------------------
(* Assignment statements (C8), read off the tokens of a line that holds    *)
(* one statement.                                                          *)

\* the numbers of the lines that hold a statement
RECURSIVE StatementLines(_, _)
StatementLines(lines, k) ==
  IF k > Len(lines) THEN <<>>
  ELSE (IF lines[k] = <<>> THEN <<>> ELSE <<k>>) \o StatementLines(lines, k + 1)

\* the kind of a right-hand side: a number (a constant sum included), a
\* variable, the value a variable points to, or anything else
RhsKind(rhs) ==
  IF Len(rhs) = 1 /\ rhs[1] \in NumberTokens THEN "n"
  ELSE IF Len(rhs) = 3 /\ rhs[1] \in NumberTokens /\ rhs[2] = "+" /\ rhs[3] \in NumberTokens
    THEN "n"
  ELSE IF Len(rhs) = 1 /\ rhs[1] \in VarTokens THEN "v"
  ELSE IF Len(rhs) = 2 /\ rhs[1] = "*" /\ rhs[2] \in VarTokens THEN "*v"
  ELSE "other"

RhsOperand(rhs) ==
  CASE RhsKind(rhs) = "n" ->
         Uint8("number", IF Len(rhs) = 1 THEN CLiteral(rhs[1])
                         ELSE CLiteral(rhs[1]) + CLiteral(rhs[3]))
    [] RhsKind(rhs) = "v" -> Uint8("variable", ValueNumber(rhs[1]))
    [] RhsKind(rhs) = "*v" -> Uint8("variable", ValueNumber(rhs[2]))

IsCrement(tokens) ==
  Len(tokens) = 3 /\ tokens[1] \in VarTokens /\ tokens[2] \in {"++", "--"} /\ tokens[3] = ";"

IsVarAssignment(tokens) ==
  /\ Len(tokens) >= 4
  /\ tokens[1] \in VarTokens
  /\ tokens[2] \in {"=", "+=", "-=", "*=", "/="}
  /\ tokens[Len(tokens)] = ";"

IsIndirectAssignment(tokens) ==
  /\ Len(tokens) >= 5
  /\ tokens[1] = "*"
  /\ tokens[2] \in VarTokens
  /\ tokens[3] = "="
  /\ tokens[Len(tokens)] = ";"

IsAssignment(tokens) ==
  IsCrement(tokens) \/ IsVarAssignment(tokens) \/ IsIndirectAssignment(tokens)

Rhs(tokens) ==
  IF IsIndirectAssignment(tokens) THEN SubSeq(tokens, 4, Len(tokens) - 1)
  ELSE SubSeq(tokens, 3, Len(tokens) - 1)

\* the name of the call an assignment lowers to, "" when it lowers to none
LoweredName(tokens) ==
  IF IsCrement(tokens) THEN (IF tokens[2] = "++" THEN "increment" ELSE "decrement")
  ELSE IF IsIndirectAssignment(tokens)
    THEN CASE RhsKind(Rhs(tokens)) = "v" -> "lindirectv"
           [] RhsKind(Rhs(tokens)) = "n" -> "lindirectn"
           [] OTHER -> ""
  ELSE IF tokens[2] = "="
    THEN CASE RhsKind(Rhs(tokens)) = "n" -> "assignn"
           [] RhsKind(Rhs(tokens)) = "v" -> "assignv"
           [] RhsKind(Rhs(tokens)) = "*v" -> "rindirect"
           [] OTHER -> ""
  ELSE IF RhsKind(Rhs(tokens)) \in {"n", "v"}
    THEN (CASE tokens[2] = "+=" -> "add" [] tokens[2] = "-=" -> "sub"
            [] tokens[2] = "*=" -> "mul." [] tokens[2] = "/=" -> "div.")
           \o RhsKind(Rhs(tokens))
  ELSE ""

Lowered(tokens) ==
  IF IsCrement(tokens)
    THEN CallOf(LoweredName(tokens), <<Uint8("variable", ValueNumber(tokens[1]))>>)
  ELSE IF IsIndirectAssignment(tokens)
    THEN CallOf(LoweredName(tokens),
                <<Uint8("variable", ValueNumber(tokens[2])), RhsOperand(Rhs(tokens))>>)
  ELSE CallOf(LoweredName(tokens),
              <<Uint8("variable", ValueNumber(tokens[1])), RhsOperand(Rhs(tokens))>>)

\* the line of the k-th statement
StatementLine(k) == StatementLines(src, 1)[k]

\* the parser stopped at a statement: the line of that statement
ParseStopped == pc = "error" /\ Len(statements) < Len(StatementLines(src, 1))

StoppedAt == StatementLine(Len(statements) + 1)

InvalidAssignmentMessages ==
  {"invalid assignment",
   "invalid indirect variable assignment: value must be a number literal or another variable"}

\* every assignment read lowers to the call of the table, and no assignment
\* of the table is refused
AssignmentsLowered ==
  /\ \A k \in 1..Len(statements) :
       (k <= Len(StatementLines(src, 1)) /\ IsAssignment(src[StatementLine(k)]))
         => /\ LoweredName(src[StatementLine(k)]) # ""
            /\ statements[k] = Lowered(src[StatementLine(k)])
  /\ ParseStopped /\ IsAssignment(src[StoppedAt]) => LoweredName(src[StoppedAt]) = ""

\* an assignment with any other right-hand side is refused with the
\* location of the statement
OthersRefused(lines) ==
  ParseStopped /\ IsAssignment(src[StoppedAt]) /\ src[StoppedAt] \in lines
    => /\ error.message \in InvalidAssignmentMessages
       /\ error.fileName = "main"
       /\ error.lineNumber = StoppedAt

\* C8 as stated: a variable assignment lowers to the one call its operator
\* and the kind of its right-hand side choose (assignn, assignv, rindirect,
\* add/sub/mul./div. with n or v, lindirectv, lindirectn, increment,
\* decrement), and an assignment with any other kind of right-hand side is
\* refused with an invalid-assignment error located at the statement
C8_AssignmentLowering ==
  /\ AssignmentsLowered
  /\ OthersRefused(AssignmentLineKinds)

\* the same for the assignments to a variable alone, without those through
\* a pointer
C8_VarAssignmentLowering ==
  /\ AssignmentsLowered
  /\ OthersRefused({tokens \in AssignmentLineKinds : ~IsIndirectAssignment(tokens)})

----------------------------------------------------------------------------
(* The message table (C5): #message directives, then the layout compile    *)
(* returns.                                                                *)

\* case 'message'; decodeIntegerLiteral gives NaN for the alphabet's tokens
\* outside IntTokens and for a missing token
DirectiveMessage ==
  /\ Directive({"message"})
  /\ IF \/ Len(CurrentLine.tokens) # 4
        \/ TokenAt(CurrentLine.tokens, 3) \notin IntTokens
        \/ ~isStringLiteralToken(CurrentLine.tokens[4])
       THEN /\ Throw(LineSyntaxError(CurrentLine, "invalid #message directive"))
            /\ UNCHANGED <<tokenLines, line_i, messages, messageNumbers>>
       ELSE /\ messageNumbers' =
                 IF decodeStringLiteral(CurrentLine.tokens[4]) \in DOMAIN messageNumbers
                   THEN messageNumbers
                   ELSE (decodeStringLiteral(CurrentLine.tokens[4])
                           :> decodeIntegerLiteral(CurrentLine.tokens[3])) @@ messageNumbers
            /\ messages' = SetMessage(messages, decodeIntegerLiteral(CurrentLine.tokens[3]),
                                      decodeStringLiteral(CurrentLine.tokens[4]))
            /\ tokenLines' = SetTokens(tokenLines, line_i, <<>>)
            /\ line_i' = line_i + 1
            /\ UNCHANGED <<pc, error>>
  /\ UNCHANGED <<src, ifStack, simpleMacros, exprVars, genVars, wordNumbers,
                 itemNumbers, nextFreeMessageNumber, messageOffsets, messageBlock, callVars>>

\* longest source made of #message directives
MaxMessageLines == 3

MessageLineKinds ==
  {<<"#", "message", "1", "\"hi\"">>, <<"#", "message", "3", "\"bye\"">>,
   <<"#", "message", "1", "\"bye\"">>, <<"#", "message", "2", "\"\"">>,
   <<"#", "message", "0", "\"hi\"">>, <<"#", "message", "X", "\"hi\"">>,
   <<"#", "message", "1">>}

InitMsg ==
  /\ src \in SeqsUpTo(MessageLineKinds, MaxMessageLines)
  /\ tokenLines = TokenLinesOf("main", src)
  /\ line_i = 1
  /\ ifStack = <<>>
  /\ simpleMacros = NoMacros
  /\ pc = "scan"
  /\ error = NoError
  /\ exprTokens = <<>>
  /\ exprResult = Value(0, <<>>)
  /\ NothingParsed
  /\ NoMessages
  /\ OneInvocation
  /\ NoFunctionCall

NextMsg ==
  \/ DirectiveMessage
  \/ EndOfInput
  \/ EndOfStatements
  \/ EmitStatement
  \/ CheckUndefinedLabels
  \/ Return

SpecMsg == InitMsg /\ [][NextMsg]_vars

Present(list) == {k \in 1..Len(list) : list[k] # NoMessage}

\* the sum of text length + 1 over the present messages before slot k
RECURSIVE TotalBefore(_, _)
TotalBefore(list, k) ==
  IF k <= 1 THEN 0
  ELSE TotalBefore(list, k - 1)
         + (IF k - 1 \in Present(list) THEN Len(list[k - 1]) + 1 ELSE 0)

\* the present messages from slot k on, a 0 byte between two of them
RECURSIVE Separated(_, _, _)
Separated(list, k, first) ==
  IF k > Len(list) THEN <<>>
  ELSE IF k \notin Present(list) THEN Separated(list, k + 1, first)
  ELSE (IF first THEN <<>> ELSE <<0>>) \o list[k] \o Separated(list, k + 1, FALSE)

OffsetsLaidOut ==
  /\ Len(messageOffsets) = Len(messages)
  /\ \A k \in 1..Len(messages) :
       messageOffsets[k] = IF k \in Present(messages) THEN TotalBefore(messages, k) ELSE -1

Hi == <<104, 105>>
Bye == <<98, 121, 101>>

ExampleLaidOut ==
  messages = <<NoMessage, Hi, NoMessage, Bye>>
    => /\ messageOffsets = <<-1, 0, -1, 3>>
       /\ messageBlock = Hi \o <<0>> \o Bye \o <<0>>

\* C5 as stated: messageOffsets has one entry per slot of messages, -1 for
\* an absent slot and for a present message the sum of text length + 1 over
\* the present messages before it; messageBlock is the present messages in
\* order with a 0 byte between them and a final 0 byte, and its length is
\* that sum over all present messages; {1: "hi", 3: "bye"} gives the offsets
\* [-1, 0, -1, 3] and the block "hi\0bye\0"
C5_MessageLayout ==
  Returned =>
    /\ OffsetsLaidOut
    /\ messageBlock = Separated(messages, 1, TRUE) \o <<0>>
    /\ Len(messageBlock) = TotalBefore(messages, Len(messages) + 1)
    /\ ExampleLaidOut

\* C5, amended: the same, but the length of messageBlock is that sum only
\* when a message is present; with none the block is the single 0 byte
C5_MessageLayoutWithMessages ==
  Returned =>
    /\ OffsetsLaidOut
    /\ messageBlock = Separated(messages, 1, TRUE) \o <<0>>
    /\ Present(messages) # {}
         => Len(messageBlock) = TotalBefore(messages, Len(messages) + 1)
    /\ Present(messages) = {} => messageBlock = <<0>>
    /\ ExampleLaidOut

\* the layout returned for {1: "hi", 3: "bye"}
C5_Witness ==
  /\ Returned
  /\ messages = <<NoMessage, Hi, NoMessage, Bye>>

----------------------------------------------------------------------------
(* The #word and #item directives, and the three symbol tables (C12).  A   *)
(* name is held as the bytes of its text, a table as a function from names *)
(* to numbers.                                                             *)

\* the characters of a keyword or number token used as a name
TokenText(token) ==
  CASE token = "a" -> <<97>>
    [] token = "hi" -> <<104, 105>>
    [] token = "1" -> <<49>>
    [] token = "2" -> <<50>>

\* the key case 'word' and case 'item' give a name token
NameOf(token) ==
  IF isStringLiteralToken(token) THEN decodeStringLiteral(token) ELSE TokenText(token)

isNameToken(token) ==
  isStringLiteralToken(token) \/ isKeywordToken(token) \/ isNumberToken(token)

\* NaN, which decodeIntegerLiteral gives for a token that is no integer
NaN == -1

integerOrNaN(token) ==
  IF token \in IntTokens THEN decodeIntegerLiteral(token) ELSE NaN

\* table.set(name, n)
MapSet(table, name, n) ==
  [k \in DOMAIN table \cup {name} |-> IF k = name THEN n ELSE table[k]]

\* the for loop of case 'word' from the name at tokens[k] on: the table it
\* leaves and whether it threw
RECURSIVE wordLoop(_, _, _, _)
wordLoop(tokens, k, n, table) ==
  IF k > Len(tokens) THEN [table |-> table, threw |-> FALSE]
  ELSE IF ~isNameToken(tokens[k]) THEN [table |-> table, threw |-> TRUE]
  ELSE IF k + 1 <= Len(tokens) /\ tokens[k + 1] # ","
    THEN [table |-> MapSet(table, NameOf(tokens[k]), n), threw |-> TRUE]
  ELSE wordLoop(tokens, k + 2, n, MapSet(table, NameOf(tokens[k]), n))

wordLooped(looped) ==
  /\ wordNumbers' = looped.table
  /\ IF looped.threw
       THEN /\ Throw(LineSyntaxError(CurrentLine, "invalid #word directive"))
            /\ UNCHANGED <<tokenLines, line_i>>
       ELSE /\ tokenLines' = SetTokens(tokenLines, line_i, <<>>)
            /\ line_i' = line_i + 1
            /\ UNCHANGED <<pc, error>>

\* case 'word'
DirectiveWord ==
  /\ Directive({"word"})
  /\ wordLooped(wordLoop(CurrentLine.tokens, 4,
                         integerOrNaN(TokenAt(CurrentLine.tokens, 3)), wordNumbers))
  /\ UNCHANGED <<src, ifStack, simpleMacros, exprVars, genVars, messages,
                 messageNumbers, itemNumbers, nextFreeMessageNumber,
                 messageOffsets, messageBlock, callVars>>

\* case 'item'; a fourth token that is no name is passed over
DirectiveItem ==
  /\ Directive({"item"})
  /\ IF Len(CurrentLine.tokens) # 4
       THEN /\ Throw(LineSyntaxError(CurrentLine, "invalid #item directive"))
            /\ UNCHANGED <<tokenLines, line_i, itemNumbers>>
       ELSE /\ itemNumbers' =
                 IF isNameToken(CurrentLine.tokens[4])
                   THEN MapSet(itemNumbers, NameOf(CurrentLine.tokens[4]),
                               integerOrNaN(CurrentLine.tokens[3]))
                   ELSE itemNumbers
            /\ tokenLines' = SetTokens(tokenLines, line_i, <<>>)
            /\ line_i' = line_i + 1
            /\ UNCHANGED <<pc, error>>
  /\ UNCHANGED <<src, ifStack, simpleMacros, exprVars, genVars, messages,
                 messageNumbers, wordNumbers, nextFreeMessageNumber,
                 messageOffsets, messageBlock, callVars>>

\* longest source made of table directives
MaxTableLines == 3

TableLineKinds ==
  {<<"#", "message", "1", "\"hi\"">>, <<"#", "message", "2", "\"hi\"">>,
   <<"#", "message", "1", "\"bye\"">>,
   <<"#", "word", "1", "\"hi\"">>, <<"#", "word", "2", "\"hi\"">>,
   <<"#", "word", "1", "\"hi\"", ",", "\"bye\"">>, <<"#", "word", "2", "a">>,
   <<"#", "word", "X", "\"bye\"">>, <<"#", "word", "1", "\"hi\"", "\"bye\"">>,
   <<"#", "item", "1", "\"hi\"">>, <<"#", "item", "2", "\"hi\"">>,
   <<"#", "item", "2", "hi">>, <<"#", "item", "1">>}

InitTables ==
  /\ src \in SeqsUpTo(TableLineKinds, MaxTableLines)
  /\ tokenLines = TokenLinesOf("main", src)
  /\ line_i = 1
  /\ ifStack = <<>>
  /\ simpleMacros = NoMacros
  /\ pc = "scan"
  /\ error = NoError
  /\ exprTokens = <<>>
  /\ exprResult = Value(0, <<>>)
  /\ NothingParsed
  /\ NoMessages
  /\ OneInvocation
  /\ NoFunctionCall

NextTables == DirectiveMessage \/ DirectiveWord \/ DirectiveItem \/ EndOfInput

SpecTables == InitTables /\ [][NextTables]_vars

\* the table a directive line writes, and the names and the number it gives
TableOf(keyword) ==
  CASE keyword = "message" -> messageNumbers
    [] keyword = "word" -> wordNumbers
    [] keyword = "item" -> itemNumbers

NamesDefined(tokens) ==
  IF tokens[2] = "message" THEN {decodeStringLiteral(tokens[4])}
  ELSE {NameOf(tokens[k]) : k \in {j \in 4..Len(tokens) : j % 2 = 0}}

\* a table directive line with an integer, and one string literal
\* (#message), one name (#item) or names separated by commas (#word)
WellFormedTableLine(tokens) ==
  /\ Len(tokens) >= 4
  /\ tokens[1] = "#"
  /\ tokens[2] \in {"message", "word", "item"}
  /\ tokens[3] \in IntTokens
  /\ tokens[2] \in {"message", "item"} => Len(tokens) = 4
  /\ tokens[2] = "message" => isStringLiteralToken(tokens[4])
  /\ Len(tokens) % 2 = 0
  /\ \A k \in 4..Len(tokens) : IF k % 2 = 0 THEN isNameToken(tokens[k]) ELSE tokens[k] = ","

\* the line gives a registered name a number other than the registered one
Conflicting(tokens) ==
  \E name \in NamesDefined(tokens) :
    /\ name \in DOMAIN TableOf(tokens[2])
    /\ TableOf(tokens[2])[name] # decodeIntegerLiteral(tokens[3])

\* the line repeats definitions the table holds
Repeating(tokens) ==
  \A name \in NamesDefined(tokens) :
    /\ name \in DOMAIN TableOf(tokens[2])
    /\ TableOf(tokens[2])[name] = decodeIntegerLiteral(tokens[3])

\* every registered name of the table is registered after the step, with
\* the same number
KeepsNumbers(before, after) ==
  \A name \in DOMAIN before : name \in DOMAIN after /\ after[name] = before[name]

TableStep == Scanning /\ WellFormedTableLine(CurrentLine.tokens)

\* C12 as stated: in each of the three tables a name keeps the number it
\* was registered with; a directive that gives a registered name another
\* number throws, and one that repeats registered definitions is scanned
\* without an error and leaves the tables as they were
C12_OneNumberPerName ==
  [][/\ KeepsNumbers(messageNumbers, messageNumbers')
     /\ KeepsNumbers(wordNumbers, wordNumbers')
     /\ KeepsNumbers(itemNumbers, itemNumbers')
     /\ (TableStep /\ Conflicting(CurrentLine.tokens)) => pc' = "error"
     /\ (TableStep /\ Repeating(CurrentLine.tokens)) =>
          /\ pc' = "scan"
          /\ UNCHANGED <<messages, messageNumbers, wordNumbers, itemNumbers>>]_vars

\* the parts of C12 that hold: a message text keeps the number it was first
\* registered with, and a directive that repeats registered definitions is
\* scanned without an error and leaves the three tables as they were
C12_RepeatsTolerated ==
  [][/\ KeepsNumbers(messageNumbers, messageNumbers')
     /\ (TableStep /\ Repeating(CurrentLine.tokens)) =>
          /\ pc' = "scan"
          /\ UNCHANGED <<messageNumbers, wordNumbers, itemNumbers>>]_vars

----------------------------------------------------------------------------
(* Flag assignments with '?', '||' and '&&' (C13), one statement a line.   *)

MaxFlagLines == 2

TernaryLineKinds ==
  {<<"f1", "=", "1", "?", "0", ":", "1", ";">>,
   <<"f1", "=", "0", "?", "0", ":", "1", ";">>,
   <<"f1", "=", "v1", "==", "1", "?", "v2", "==", "1", ":", "v2", "==", "2", ";">>,
   <<"f2", "=", "v1", "==", "1", "||", "v2", "==", "1", "?", "1", ":", "0", ";">>,
   <<"f1", "=", "1", "?", "v1", "==", "1", ":", "v2", "==", "1", ";">>,
   <<"f1", "=", "f2", "?", "1", ":", "0", ";">>}

FlagLineKinds ==
  TernaryLineKinds \cup
  {<<"f1", "=", "1", ";">>, <<"f1", "=", "0", ";">>, <<"f2", "=", "!", "f2", ";">>,
   <<"f1", "=", "!", "f2", ";">>, <<"f1", "=", "v1", "==", "1", ";">>,
   <<"f1", "=", "v1", "==", "1", "||", "v2", "==", "1", ";">>,
   <<"f1", "=", "v1", "==", "1", "&&", "v2", "==", "1", "&&", "v1", "<", "v2", ";">>,
   <<"f1", "=", "1", "||", "v1", "==", "1", ";">>,
   <<"f1", "=", "0", "&&", "v1", "==", "1", ";">>,
   <<"f1", "=", "1", "&&", "v1", "==", "1", ";">>,
   <<"f1", "=", "0", "||", "0", ";">>,
   <<"f1", "=", "v1", "<<", "1", ";">>,
   <<"f1", "1", ";">>, <<";">>, <<>>}

FlagSources == SeqsUpTo(FlagLineKinds, MaxFlagLines)

InitFlags ==
  /\ src \in FlagSources
  /\ tokenLines = TokenLinesOf("main", src)
  /\ line_i = Len(src) + 1
  /\ ifStack = <<>>
  /\ simpleMacros = NoMacros
  /\ pc = "done"
  /\ error = NoError
  /\ exprTokens = <<>>
  /\ exprResult = Value(0, <<>>)
  /\ NothingParsed
  /\ NoMessages
  /\ OneInvocation
  /\ NoFunctionCall

NextFlags == ReadStatement \/ EndOfStatements

SpecFlags == InitFlags /\ [][NextFlags]_vars

\* the place of the first token of a line that is the given one
IndexOf(tokens, token) == CHOOSE k \in 1..Len(tokens) :
  tokens[k] = token /\ \A j \in 1..(k - 1) : tokens[j] # token

\* the expression the parser reads off the tokens of an operand that holds
\* no '?'
OperandRead(tokens) ==
  readExpression(TokenStream(TokenLinesOf("main", <<tokens \o <<";">>>>)), 1, 0).e

ConditionPart(tokens) == SubSeq(tokens, 3, IndexOf(tokens, "?") - 1)
ThenPart(tokens) == SubSeq(tokens, IndexOf(tokens, "?") + 1, IndexOf(tokens, ":") - 1)
ElsePart(tokens) == SubSeq(tokens, IndexOf(tokens, ":") + 1, Len(tokens) - 1)

\* cond ? a : b as the grammar gives it: a or b under a number, a conditional
\* otherwise
Ternary(cond, a, b) ==
  IF IsNumber(cond) THEN (IF cond.value # 0 THEN a ELSE b) ELSE ConditionalOf(cond, a, b)

\* the statement of a line flag = cond ? a : b ;
TernaryStatement(tokens) ==
  hoistConditionalStatement(
    flagAssigned(Uint8("flag", ValueNumber(tokens[1])),
                 Read(Ternary(OperandRead(ConditionPart(tokens)),
                              OperandRead(ThenPart(tokens)),
                              OperandRead(ElsePart(tokens))), 0)).e)

\* C13 as stated: the parser accepts cond ? a : b below ||; under a number
\* cond the expression is a (cond not 0) or b (cond 0), and otherwise it is
\* the conditional of cond, a and b, which hoisting then flattens
C13_TernaryParsed ==
  /\ \A k \in 1..Len(statements) :
       (k <= Len(StatementLines(src, 1)) /\ src[StatementLine(k)] \in TernaryLineKinds)
         => statements[k] = TernaryStatement(src[StatementLine(k)])
  /\ ~(ParseStopped /\ src[StoppedAt] \in TernaryLineKinds)

\* what the code does with a '?': the statement is refused at the '?', which
\* the operator pattern of extendExpression does not match
TernaryRefused ==
  ParseStopped /\ src[StoppedAt] \in TernaryLineKinds
    => /\ error.message = "expected ;, got ?"
       /\ error.lineNumber = StoppedAt

----------------------------------------------------------------------------
(* Call statements (C14): table directives, then calls, one a line.        *)

MaxCallDirectives == 2
MaxCallLines == 2

CallDirectiveKinds ==
  {<<"#", "message", "1", "\"hi\"">>, <<"#", "message", "2", "\"bye\"">>,
   <<"#", "message", "3", "\"hi\"">>, <<"#", "word", "1", "\"hi\"">>,
   <<"#", "item", "1", "\"hi\"">>}

\* the lines that hold a call name(args...); with arguments of one token
CallKinds ==
  {<<"print", "(", "\"hi\"", ")", ";">>, <<"print", "(", "\"bye\"", ")", ";">>,
   <<"print", "(", "\"\"", ")", ";">>, <<"print", "(", "v1", ")", ";">>,
   <<"print", "(", "m1", ")", ";">>, <<"print", "(", ")", ";">>,
   <<"print", "(", "\"hi\"", ",", "\"bye\"", ")", ";">>,
   <<"get", "(", "\"hi\"", ")", ";">>, <<"get", "(", "v1", ")", ";">>,
   <<"increment", "(", "v1", ")", ";">>, <<"increment", "(", "\"hi\"", ")", ";">>,
   <<"word", ".", "sample", "(", "1", ",", "\"hi\"", ")", ";">>,
   <<"word", ".", "sample", "(", "1", ",", "w1", ")", ";">>,
   <<"word", ".", "sample", "(", "1", ",", "f1", ")", ";">>,
   <<"a", "(", ")", ";">>}

CallLineKinds == CallKinds \cup {<<"a", ":">>, <<"print", "(", "\"hi\"", ")">>}

CallSources ==
  {d \o c : d \in SeqsUpTo(CallDirectiveKinds, MaxCallDirectives),
            c \in SeqsUpTo(CallLineKinds, MaxCallLines)}

InitCalls ==
  /\ src \in CallSources
  /\ tokenLines = TokenLinesOf("main", src)
  /\ line_i = 1
  /\ ifStack = <<>>
  /\ simpleMacros = NoMacros
  /\ pc = "scan"
  /\ error = NoError
  /\ exprTokens = <<>>
  /\ exprResult = Value(0, <<>>)
  /\ NothingParsed
  /\ NoMessages
  /\ OneInvocation
  /\ NoFunctionCall

NextCalls ==
  \/ DirectiveMessage
  \/ DirectiveWord
  \/ DirectiveItem
  \/ MacroSubstitution
  \/ EndOfInput
  \/ ReadStatement
  \/ EndOfStatements

SpecCalls == InitCalls /\ [][NextCalls]_vars

\* the line of the statement read next, and a step that reads a call of it
NextLine == Stream.ts[token_i].line.lineNumber

ReadsCall ==
  /\ pc = "done"
  /\ token_i <= Len(Stream.ts)
  /\ src[NextLine] \in CallKinds
  /\ token_i' # token_i \/ error' # error

FuncOf(tokens) == IF tokens[2] = "." THEN tokens[1] \o "." \o tokens[3] ELSE tokens[1]

NotComma(token) == token # ","

ArgsOf(tokens) ==
  SelectSeq(SubSeq(tokens, IndexOf(tokens, "(") + 1, Len(tokens) - 2), NotComma)

TableKinds == {"message", "word", "inventory-item"}

\* the kind the command of a call line declares for its j-th argument
Declared(tokens, j) == actionCommandsByName[FuncOf(tokens)].params[j]

ArityKept(tokens) ==
  /\ FuncOf(tokens) \in DOMAIN actionCommandsByName
  /\ Len(ArgsOf(tokens)) = Len(actionCommandsByName[FuncOf(tokens)].params)

\* a string literal where no table is declared, or one its table lacks
BadLiteral(tokens, j) ==
  /\ isStringLiteralToken(ArgsOf(tokens)[j])
  /\ \/ Declared(tokens, j) \notin TableKinds
     \/ /\ Declared(tokens, j) = "word"
        /\ decodeStringLiteral(ArgsOf(tokens)[j]) \notin DOMAIN wordNumbers
     \/ /\ Declared(tokens, j) = "inventory-item"
        /\ decodeStringLiteral(ArgsOf(tokens)[j]) \notin DOMAIN itemNumbers

\* an argument that is no literal, and of another kind than the declared
\* table's, where a table is declared
Mistyped(tokens, j) ==
  /\ ~isStringLiteralToken(ArgsOf(tokens)[j])
  /\ Declared(tokens, j) \in TableKinds
  /\ readAtomExpression(TokenStream(TokenLinesOf("main", <<<<ArgsOf(tokens)[j]>>>>)), 1).e.meaning
       # Declared(tokens, j)

\* the lowest number from 1 on whose slot of messages holds no text
LowestFree == CHOOSE n \in 1..(Len(messages) + 1) :
  ~IsText(messages, n) /\ \A m \in 1..(n - 1) : IsText(messages, m)

\* the parameter a call gives for its j-th argument
Resolved(tokens, j) ==
  IF ~isStringLiteralToken(ArgsOf(tokens)[j])
    THEN readAtomExpression(TokenStream(TokenLinesOf("main", <<<<ArgsOf(tokens)[j]>>>>)), 1).e
  ELSE IF Declared(tokens, j) = "message"
    THEN Uint8("message",
               IF decodeStringLiteral(ArgsOf(tokens)[j]) \in DOMAIN messageNumbers
                 THEN messageNumbers[decodeStringLiteral(ArgsOf(tokens)[j])]
                 ELSE LowestFree)
  ELSE IF Declared(tokens, j) = "word"
    THEN Uint16(wordNumbers[decodeStringLiteral(ArgsOf(tokens)[j])])
  ELSE Uint8("inventory-item", itemNumbers[decodeStringLiteral(ArgsOf(tokens)[j])])

RefusedHere ==
  /\ error'.message # ""
  /\ error'.fileName = "main"
  /\ error'.lineNumber = NextLine
  /\ statements' = statements

\* the call is read with every literal replaced by its number; a message
\* literal given a number is registered under it
AcceptedHere(tokens) ==
  /\ error' = NoError
  /\ statements' =
       Append(statements,
              CallOf(FuncOf(tokens), [j \in DOMAIN ArgsOf(tokens) |-> Resolved(tokens, j)]))
  /\ \A j \in DOMAIN ArgsOf(tokens) :
       (isStringLiteralToken(ArgsOf(tokens)[j]) /\ Declared(tokens, j) = "message")
         => /\ messageNumbers'[decodeStringLiteral(ArgsOf(tokens)[j])]
                 = Resolved(tokens, j).value
            /\ messages'[Resolved(tokens, j).value + 1]
                 = decodeStringLiteral(ArgsOf(tokens)[j])

\* the outcome of a call line whose faulty arguments are those of Faulty
CallOutcome(tokens, Faulty(_, _)) ==
  IF ~ArityKept(tokens) \/ \E j \in DOMAIN ArgsOf(tokens) : Faulty(tokens, j)
    THEN RefusedHere
    ELSE AcceptedHere(tokens)

LiteralOrType(tokens, j) == BadLiteral(tokens, j) \/ Mistyped(tokens, j)

\* C14 as stated: a call of an action command is refused with a located
\* error on an unknown name, on a wrong count of arguments, on a string
\* literal where no message, word or item is declared, on a word or item
\* its table lacks, and on an argument of another kind where a message, a
\* word or an item is declared; any other call is read with each literal
\* replaced by its number, a new message taking the lowest free number
C14_CallsValidated == [][ReadsCall => CallOutcome(src[NextLine], LiteralOrType)]_vars

\* what the code does: the same, but an argument that is no literal is
\* passed whatever its kind
C14_LiteralsValidated == [][ReadsCall => CallOutcome(src[NextLine], BadLiteral)]_vars

----------------------------------------------------------------------------
(* The lexer: tokenize on the tokens its pattern finds on each line, and   *)
(* #include, which lexes the file it names.                                *)

\* the for loop of tokenize over the tokens of a line, from the tokens rest
\* on: the tokens kept and inComment as the line leaves it
RECURSIVE stripLine(_, _, _)
stripLine(rest, out, inComment) ==
  IF rest = <<>> THEN [tokens |-> out, inComment |-> inComment]
  ELSE IF inComment THEN stripLine(Tail(rest), out, Head(rest) # "*/")
  ELSE IF Head(rest) = "/*" THEN stripLine(Tail(rest), out, TRUE)
  ELSE IF Head(rest) = "*/" THEN stripLine(Tail(rest), out \o <<"*", "/">>, FALSE)
  ELSE IF Head(rest) = "//" THEN [tokens |-> out, inComment |-> FALSE]
  ELSE stripLine(Tail(rest), Append(out, Head(rest)), FALSE)

\* lines.map(...), inComment being carried from a line to the next
RECURSIVE lexLines(_, _, _)
\* lexedLine with inComment reset at every line
lexedLineReset(rest, out, stripped) == lexLines(rest, Append(out, stripped.tokens), FALSE)

lexedLine(rest, out, stripped) ==
  lexLines(rest, Append(out, stripped.tokens), stripped.inComment)

lexLines(rawLines, out, inComment) ==
  IF rawLines = <<>> THEN [lines |-> out, inComment |-> inComment]
  ELSE lexedLine(Tail(rawLines), out, stripLine(Head(rawLines), <<>>, inComment))

tokenized(path, lexed) ==
  [lines |-> TokenLinesOf(path, lexed.lines), unterminated |-> lexed.inComment]

\* tokenize(src, path); unterminated stands for the Error it throws
tokenize(rawLines, path) == tokenized(path, lexLines(rawLines, <<>>, FALSE))

\* the path compile is called with, and the other files there are
Path == "/main"

Files ==
  [p \in {"/s/b", "/s/c", "/c"} |->
     CASE p = "/s/b" -> << <<"#", "include", "\"c\"">>, <<"#", "define", "X", "Y">>, <<"X">> >>
       [] p = "/s/c" -> << <<"b">>, <<"/*", "a">>, <<"*/">> >>
       [] p = "/c" -> << <<"a">> >>]

\* a path as the names it is made of
RECURSIVE PathString(_)
PathString(names) ==
  IF names = <<>> THEN "" ELSE "/" \o Head(names) \o PathString(Tail(names))

PathNames(p) ==
  CHOOSE names \in {<<"main">>, <<"s", "b">>, <<"s", "c">>, <<"c">>} : PathString(names) = p

ComponentName(bytes) ==
  CASE bytes = <<98>> -> "b" [] bytes = <<99>> -> "c" [] bytes = <<115>> -> "s"
    [] bytes = <<46, 46>> -> ".."

\* text.split('/')
RECURSIVE Split(_, _)
Split(bytes, name) ==
  IF bytes = <<>> THEN <<ComponentName(name)>>
  ELSE IF Head(bytes) = 47 THEN <<ComponentName(name)>> \o Split(Tail(bytes), <<>>)
  ELSE Split(Tail(bytes), Append(name, Head(bytes)))

\* the names of a path with every '..' taken with the name before it
RECURSIVE Normalised(_, _)
Normalised(names, out) ==
  IF names = <<>> THEN out
  ELSE IF Head(names) = ".."
    THEN Normalised(Tail(names), IF out = <<>> THEN out ELSE SubSeq(out, 1, Len(out) - 1))
  ELSE Normalised(Tail(names), Append(out, Head(names)))

\* osPath.resolve(from, '../' + text)
resolve(from, text) ==
  PathString(Normalised(PathNames(from) \o <<"..">> \o Split(text, <<>>), <<>>))

\* tokenLines.splice(line_i, 1, ...includedTokens); line_i--
Spliced(included) ==
  SubSeq(tokenLines, 1, line_i - 1) \o included \o SubSeq(tokenLines, line_i + 1, Len(tokenLines))

includeLexed(lexed) ==
  IF lexed.unterminated
    THEN /\ Throw(PlainError("unterminated comment"))
         /\ UNCHANGED <<tokenLines, line_i>>
    ELSE /\ tokenLines' = Spliced(lexed.lines)
         /\ line_i' = line_i
         /\ UNCHANGED <<pc, error>>

\* await fs.promises.readFile(includePath), then tokenize
includeRead(includePath) ==
  IF includePath \notin DOMAIN Files
    THEN /\ Throw(PlainError("ENOENT: no such file or directory"))
         /\ UNCHANGED <<tokenLines, line_i>>
    ELSE includeLexed(tokenize(Files[includePath], includePath))

\* case 'include'
DirectiveInclude ==
  /\ Directive({"include"})
  /\ IF Len(CurrentLine.tokens) # 3 \/ ~isStringLiteralToken(CurrentLine.tokens[3])
       THEN /\ Throw(LineSyntaxError(CurrentLine, "invalid #include directive"))
            /\ UNCHANGED <<tokenLines, line_i>>
       ELSE includeRead(resolve(Path, decodeStringLiteral(CurrentLine.tokens[3])))
  /\ UNCHANGED <<src, ifStack, simpleMacros, exprVars, genVars, msgVars, callVars>>

\* const src = await fs.promises.readFile(path); tokenLines = tokenize(src, path)
Tokenize ==
  /\ pc = "lex"
  /\ IF tokenize(src, Path).unterminated
       THEN /\ Throw(PlainError("unterminated comment"))
            /\ UNCHANGED tokenLines
       ELSE /\ tokenLines' = tokenize(src, Path).lines
            /\ pc' = "scan"
            /\ UNCHANGED error
  /\ UNCHANGED <<src, line_i, ifStack, simpleMacros, exprVars, genVars, msgVars, callVars>>

\* longest file compile is called on
MaxIncludeLines == 3

IncludeLineKinds ==
  {<<"#", "include", "\"s/b\"">>, <<"#", "include", "\"c\"">>,
   <<"#", "include", "\"s/c\"">>, <<"#", "include", "\"b\"">>,
   <<"#", "include", "\"../c\"">>, <<"#", "include">>,
   <<"#", "include", "\"c\"", "\"c\"">>, <<"#", "include", "a">>,
   <<"#", "define", "X", "a">>, <<"X">>, <<"a", "//", "b">>}

InitInclude ==
  /\ src \in SeqsUpTo(IncludeLineKinds, MaxIncludeLines)
  /\ tokenLines = <<>>
  /\ line_i = 1
  /\ ifStack = <<>>
  /\ simpleMacros = NoMacros
  /\ pc = "lex"
  /\ error = NoError
  /\ exprTokens = <<>>
  /\ exprResult = Value(0, <<>>)
  /\ NothingParsed
  /\ NoMessages
  /\ OneInvocation
  /\ NoFunctionCall

NextInclude ==
  \/ Tokenize
  \/ DirectiveInclude
  \/ DirectiveDefine
  \/ MacroSubstitution
  \/ EndOfInput

SpecInclude == InitInclude /\ [][NextInclude]_vars

\* a step that scans a well-formed #include
ScansInclude ==
  /\ Directive({"include"})
  /\ Len(CurrentLine.tokens) = 3
  /\ isStringLiteralToken(CurrentLine.tokens[3])
  /\ <<tokenLines, line_i, pc>>' # <<tokenLines, line_i, pc>>

\* the directive line is replaced by the lexed lines of the file at the
\* path resolved from the file named from, and is scanned next; a file that
\* is not there or does not lex stops the compilation
IncludedFrom(from) ==
  IF resolve(from, decodeStringLiteral(CurrentLine.tokens[3])) \in DOMAIN Files
       /\ ~tokenize(Files[resolve(from, decodeStringLiteral(CurrentLine.tokens[3]))],
                    "").unterminated
    THEN /\ tokenLines' =
              Spliced(tokenize(Files[resolve(from, decodeStringLiteral(CurrentLine.tokens[3]))],
                               resolve(from, decodeStringLiteral(CurrentLine.tokens[3]))).lines)
         /\ line_i' = line_i
         /\ pc' = "scan"
    ELSE pc' = "error"

\* C15 as stated: #include "path" resolves path against the directory of
\* the file that holds the directive, whichever file that is; the directive
\* line is replaced by the lexed lines of that file, which keep their own
\* file name and line numbers, and the first of them is scanned next
C15_IncludeFromContainingFile == [][ScansInclude => IncludedFrom(CurrentLine.fileName)]_vars

\* what the code does: the path is resolved against the directory of the
\* file compile was called on
C15_IncludeFromCompiledFile == [][ScansInclude => IncludedFrom(Path)]_vars

----------------------------------------------------------------------------
(* Comment stripping (C18): tokenize on every text of a few tokens, "\n"   *)
(* ending a line.                                                          *)

\* longest text lexed, counted in tokens and line ends
MaxLexTokens == 6

LexTokens == {"a", "/*", "*/", "//", "\n"}

\* text.split(/\r\n?|\n/g) on the tokens of a text
RECURSIVE SplitLines(_, _)
SplitLines(text, line) ==
  IF text = <<>> THEN <<line>>
  ELSE IF Head(text) = "\n" THEN <<line>> \o SplitLines(Tail(text), <<>>)
  ELSE SplitLines(Tail(text), Append(line, Head(text)))

InitLex ==
  /\ src \in {SplitLines(text, <<>>) : text \in SeqsUpTo(LexTokens, MaxLexTokens)}
  /\ tokenLines = <<>>
  /\ line_i = 1
  /\ ifStack = <<>>
  /\ simpleMacros = NoMacros
  /\ pc = "lex"
  /\ error = NoError
  /\ exprTokens = <<>>
  /\ exprResult = Value(0, <<>>)
  /\ NothingParsed
  /\ NoMessages
  /\ OneInvocation
  /\ NoFunctionCall

NextLex == Tokenize \/ MacroSubstitution \/ EndOfInput

SpecLex == InitLex /\ [][NextLex]_vars

\* the text of a source, its lines joined by line ends
RECURSIVE Joined(_)
Joined(lines) ==
  IF Len(lines) = 1 THEN lines[1]
  ELSE lines[1] \o <<"\n">> \o Joined(Tail(lines))

\* where a text stands after its first k tokens: in a block comment
\* ("block"), in a comment to the end of the line ("line") or in neither
RECURSIVE After(_, _)
AfterToken(before, token) ==
  CASE before = "block" -> IF token = "*/" THEN "code" ELSE "block"
    [] before = "line" -> IF token = "\n" THEN "code" ELSE "line"
    [] OTHER -> CASE token = "/*" -> "block" [] token = "//" -> "line" [] OTHER -> "code"

After(text, k) == IF k = 0 THEN "code" ELSE AfterToken(After(text, k - 1), text[k])

\* what is left of a token met in the given place
Left(before, token) ==
  IF token = "\n" THEN <<"\n">>
  ELSE IF before # "code" \/ token \in {"/*", "//"} THEN <<>>
  ELSE IF token = "*/" THEN <<"*", "/">>
  ELSE <<token>>

RECURSIVE Stripped(_, _)
Stripped(text, k) ==
  IF k > Len(text) THEN <<>>
  ELSE Left(After(text, k - 1), text[k]) \o Stripped(text, k + 1)

TokensOf(lines) == [k \in DOMAIN lines |-> lines[k].tokens]

\* C18 as stated: the tokens from a '/*' to the next '*/' are removed, over
\* line ends too, and those from a '//' to the end of its line; a '*/' with
\* no comment open becomes '*' and '/'; and tokenize fails exactly when a
\* block comment is open at the end of the text
C18_CommentsStripped ==
  pc # "lex" =>
    IF After(Joined(src), Len(Joined(src))) = "block"
      THEN pc = "error" /\ error.message = "unterminated comment"
      ELSE /\ pc # "error"
           /\ TokensOf(tokenLines) = SplitLines(Stripped(Joined(src), 1), <<>>)

\* a comment that runs over a line end, followed by a '*/' outside it
C18_Witness ==
  /\ pc = "scan"
  /\ src = << <<"a", "/*">>, <<"a", "*/", "*/">> >>
  /\ TokensOf(tokenLines) = << <<"a">>, <<"*", "/">> >>


----------------------------------------------------------------------------
(* Errors (C16): compile from the lexer to the end of the parser, on files *)
(* of a few lines, most of them ill-formed.                                *)

MaxCompileLines == 2

CompileLineKinds ==
  {<<"#", "include", "\"c\"">>, <<"#", "include">>,
   <<"#", "define", "X", "1">>, <<"#", "define">>, <<"#", "undef", "X">>, <<"#", "undef">>,
   <<"#", "if", "1">>, <<"#", "if", "1", "+">>, <<"#", "if", "(">>, <<"#", "if", "X">>,
   <<"#", "else">>, <<"#", "endif">>, <<"#", "a">>, <<"#", "1">>,
   <<"#", "message", "1", "\"hi\"">>, <<"#", "message", "X">>,
   <<"#", "word", "1", "\"hi\"">>, <<"#", "word">>,
   <<"#", "item", "1", "\"hi\"">>, <<"#", "item", "1">>,
   <<"a", "/*">>, <<"/*", "a", "*/">>,
   <<"v1", "=", "1", ";">>, <<"v1", "=", "1">>, <<"v1", "=", "-", "1", ";">>,
   <<"v1", "=", "X", ";">>, <<"f1", "=", "v1", "<<", "1", ";">>,
   <<"print", "(", "\"hi\"", ")", ";">>, <<"a", "(", ")", ";">>, <<"print", "(">>}

InitCompile ==
  /\ src \in SeqsUpTo(CompileLineKinds, MaxCompileLines)
  /\ tokenLines = <<>>
  /\ line_i = 1
  /\ ifStack = <<>>
  /\ simpleMacros = NoMacros
  /\ pc = "lex"
  /\ error = NoError
  /\ exprTokens = <<>>
  /\ exprResult = Value(0, <<>>)
  /\ NothingParsed
  /\ NoMessages
  /\ OneInvocation
  /\ NoFunctionCall

NextCompile ==
  \/ Tokenize
  \/ DirectiveInclude
  \/ DirectiveDefine
  \/ DirectiveUndef
  \/ DirectiveIf
  \/ DirectiveElse
  \/ DirectiveEndif
  \/ DirectiveDefault
  \/ DirectiveMessage
  \/ DirectiveWord
  \/ DirectiveItem
  \/ MacroSubstitution
  \/ EndOfInput
  \/ ReadStatement
  \/ EndOfStatements

SpecCompile == InitCompile /\ [][NextCompile]_vars

\* the error thrown names a line of a file read
Located ==
  /\ error.fileName \in {Path} \cup DOMAIN Files
  /\ error.lineNumber \in
       1..(IF error.fileName = Path THEN Len(src) ELSE Len(Files[error.fileName]))

\* C16 as stated: every error of the lexer, of a directive, of a directive's
\* expression and of the parser carries the name of the file and the number
\* of the line it is raised for, and leaves compile without a result
C16_ErrorsLocated ==
  pc = "error" => /\ error.message # ""
                  /\ Located
                  /\ bytecode = NoBytecode

\* the errors thrown as a plain Error or SyntaxError
UnlocatedMessages == {"unterminated comment", "unexpected operator: <<"}

\* what the code does: the errors of the lexer and of an operator the
\* parser does not support carry no location, every other one does
C16_OtherErrorsLocated ==
  pc = "error" => /\ error.message # ""
                  /\ bytecode = NoBytecode
                  /\ IF error.message \in UnlocatedMessages
                       THEN error.fileName = "" /\ error.lineNumber = 0
                       ELSE Located

----------------------------------------------------------------------------
(* Two invocations of compile (C17).  One runs at a time; the other waits  *)
(* at an await, the read of its file or of a file it includes, and is      *)
(* resumed when the running one reaches an await or ends.                  *)

MaxInvocationLines == 2

InvocationLineKinds ==
  {<<"#", "include", "\"c\"">>, <<"#", "define", "X", "1">>, <<"#", "define", "X", "a">>,
   <<"#", "undef", "X">>, <<"X">>}

InvocationSources == SeqsUpTo(InvocationLineKinds, MaxInvocationLines)

\* compile({path}) called twice before either file is read; simpleMacros is
\* a new Map for each call unless the caller passes one Map to both
InitTwo ==
  /\ src \in InvocationSources
  /\ tokenLines = <<>>
  /\ line_i = 1
  /\ ifStack = <<>>
  /\ simpleMacros = NoMacros
  /\ pc = "lex"
  /\ error = NoError
  /\ exprTokens = <<>>
  /\ exprResult = Value(0, <<>>)
  /\ NothingParsed
  /\ NoMessages
  /\ other \in {[NoCall EXCEPT !.pc = "lex", !.src = lines] : lines \in InvocationSources}
  /\ sharedMacros \in BOOLEAN
  /\ NoFunctionCall

\* the running invocation as it is kept while it waits
Suspended ==
  [pc |-> pc, error |-> error, src |-> src, tokenLines |-> tokenLines, line_i |-> line_i,
   ifStack |-> ifStack, simpleMacros |-> simpleMacros]

\* the running invocation is at an await of fs.promises.readFile
AtAwait ==
  \/ pc = "lex"
  \/ /\ Directive({"include"})
     /\ Len(CurrentLine.tokens) = 3
     /\ isStringLiteralToken(CurrentLine.tokens[3])

\* the simpleMacros the invocation resumed works on: the one Map both were
\* passed
KeptMacros == simpleMacros

\* the simpleMacros the invocation resumed works on: its own Map, unless
\* both were passed the same one
ResumedMacros == IF sharedMacros THEN simpleMacros ELSE other.simpleMacros

\* the running invocation waits or has ended, and the other one goes on
Resume ==
  /\ other.pc \notin {"none", "done", "error", "hang"}
  /\ AtAwait \/ pc \in {"done", "error"}
  /\ pc' = other.pc
  /\ error' = other.error
  /\ src' = other.src
  /\ tokenLines' = other.tokenLines
  /\ line_i' = other.line_i
  /\ ifStack' = other.ifStack
  /\ simpleMacros' = ResumedMacros
  /\ other' = Suspended
  /\ UNCHANGED <<sharedMacros, fnArgs, fnResult, exprVars, genVars, msgVars>>

NextTwo ==
  \/ Tokenize
  \/ DirectiveInclude
  \/ DirectiveDefine
  \/ DirectiveUndef
  \/ MacroSubstitution
  \/ EndOfInput
  \/ Resume

SpecTwo == InitTwo /\ [][NextTwo]_vars

\* a step that resumes the invocation that waited
Resumes == other' # other

\* the macros the lines of a file define, those of the file it includes
\* among them
Defines(lines) ==
  {lines[k][3] : k \in {j \in DOMAIN lines : Len(lines[j]) >= 3 /\ lines[j][2] = "define"}}

\* the invocation resumed finds its macro table as it left it, and the
\* table of either invocation holds no macro but those its own file defines
Isolated ==
  /\ Resumes => simpleMacros' = other.simpleMacros
  /\ DOMAIN simpleMacros' \subseteq Defines(src')
  /\ DOMAIN other'.simpleMacros \subseteq Defines(other'.src)

----------------------------------------------------------------------------
(* Conditions (C19).                                                       *)

RECURSIVE ConditionBytes(_, _)
RECURSIVE OperandBytes(_, _)
\* the operands of a group one after the other, each in the group's context
OperandBytes(operands, ctx) ==
  IF operands = <<>> THEN <<>>
  ELSE ConditionBytes(Head(operands), ctx) \o OperandBytes(Tail(operands), ctx)

\* the bytes of an expression of a condition in a context: a group of the
\* context's kind has no delimiters, another or is between two 252, another
\* and between two 255, a not is 253 before its operand, a test is its
\* opcode, its count when it is variable-arity, and its parameters
ConditionBytes(expr, ctx) ==
  CASE expr.type = "and" /\ ctx = "and" -> OperandBytes(expr.operands, "and")
    [] expr.type = "and" /\ ctx \in {"or", "not"} ->
         <<255>> \o OperandBytes(expr.operands, "and") \o <<255>>
    [] expr.type = "or" /\ ctx = "or" -> OperandBytes(expr.operands, "or")
    [] expr.type = "or" /\ ctx # "or" ->
         <<252>> \o OperandBytes(expr.operands, "or") \o <<252>>
    [] expr.type = "not" -> <<253>> \o ConditionBytes(expr.operand, "not")
    [] expr.type = "call" ->
         <<testCommandsByName[expr.func].code>>
           \o (IF testCommandsByName[expr.func].vararg
                 THEN <<Len(expr.params)>> ELSE <<>>)
           \o AllParamBytes(expr.params)

ConditionNodes == {n \in ProgramNodes : n.node.type \in {"if", "while", "do"}}

\* C19: in the bytecode returned, the condition of every if, while and do is
\* between two bytes 255; inside it an and in an and context (the top level
\* included) and an or in an or context have no delimiters of their own, an
\* or in another context is between two bytes 252, an and under an or or a
\* not is between two bytes 255, a not is the byte 253 before its operand,
\* and a test is its opcode, then the count of its parameters only when the
\* command is variable-arity, then its parameters
C19_ConditionsEncoded ==
  Returned =>
    \A n \in ConditionNodes :
      CodeAt(bytecode, ConditionAt(n),
             <<255>> \o ConditionBytes(n.node.condition, "and") \o <<255>>)

\* a program is returned whose condition has an and under a not under an or,
\* and an or under that and
C19_Witness ==
  /\ Returned
  /\ \E n \in ConditionNodes :
       /\ n.node.condition =
            OrOf(<<NotOf(AndOf(<<IsSet, OrOf(<<Said, IsSet>>)>>)), Said>>)
       /\ CodeAt(bytecode, ConditionAt(n),
                 <<255, 252, 253, 255, 7, 1, 252, 14, 2, 0, 1, 1, 0, 7, 1, 252,
                   255, 14, 2, 0, 1, 1, 0, 252, 255>>)
----------------------------------------------------------------------------
(* Comparisons (C20), read off a line that assigns one comparison.         *)

CompareOperators == {"==", "!=", "<", "<=", ">", ">="}
CompareVariables == {"v1", "v2"}
ComparedNumbers == {"3", "5"}

\* the operands: a variable, a number, and the shapes that are neither
CompareOperands ==
  {<<x>> : x \in CompareVariables \cup ComparedNumbers}
    \cup {<<"f2">>, <<"\"hi\"">>, <<"v2", "+", "1">>}

CompareLineKinds ==
  {<<"f1", "=">> \o l \o <<op>> \o r \o <<";">> :
     l \in CompareOperands, op \in CompareOperators, r \in CompareOperands}
  \cup {<<"v1", "=", n, op, m, ";">> :
          n \in ComparedNumbers, op \in CompareOperators, m \in ComparedNumbers}

\* compile with the directive loop done on a source of one comparison
InitCompare ==
  /\ src \in {<<line>> : line \in CompareLineKinds}
  /\ tokenLines = TokenLinesOf("main", src)
  /\ line_i = Len(src) + 1
  /\ ifStack = <<>>
  /\ simpleMacros = NoMacros
  /\ pc = "done"
  /\ error = NoError
  /\ exprTokens = <<>>
  /\ exprResult = Value(0, <<>>)
  /\ NothingParsed
  /\ NoMessages
  /\ OneInvocation
  /\ NoFunctionCall

NextCompare == ReadStatement \/ EndOfStatements

SpecCompare == InitCompare /\ [][NextCompare]_vars

\* where the comparator of a line is, and the operands on its two sides
ComparatorAt(line) == CHOOSE k \in 1..Len(line) : line[k] \in CompareOperators
LeftOperand(line) == SubSeq(line, 3, ComparatorAt(line) - 1)
RightOperand(line) == SubSeq(line, ComparatorAt(line) + 1, Len(line) - 1)

IsVar(o) == Len(o) = 1 /\ o[1] \in CompareVariables
IsNum(o) == Len(o) = 1 /\ o[1] \in ComparedNumbers

\* the number a variable's name or a numeral holds
Numeral == ("v1" :> 1) @@ ("v2" :> 2) @@ ("3" :> 3) @@ ("5" :> 5)

OperandOf(o) == Uint8(IF IsVar(o) THEN "variable" ELSE "number", Numeral[o[1]])

\* the comparison of a source, on numbers
Truth(op, a, b) ==
  CASE op = "==" -> a = b [] op = "!=" -> a # b [] op = "<" -> a < b
    [] op = "<=" -> a <= b [] op = ">" -> a > b [] op = ">=" -> a >= b

Mirror(op) ==
  CASE op = "<" -> ">" [] op = ">" -> "<" [] op = "<=" -> ">=" [] op = ">=" -> "<="
    [] OTHER -> op

\* a number on the left goes to the right, with the mirrored operator
Canonical(l, op, r) ==
  IF IsNum(l) THEN [left |-> r, op |-> Mirror(op), right |-> l]
  ELSE [left |-> l, op |-> op, right |-> r]

PrimitiveOf(c) ==
  (CASE c.op \in {"==", "!="} -> "equal"
     [] c.op \in {">", "<="} -> "greater"
     [] c.op \in {"<", ">="} -> "less")
    \o (IF IsVar(c.right) THEN "v" ELSE "n")

\* <=, >= and != are the not of greater, less and equal
TestFor(c) ==
  IF c.op \in {"<=", ">=", "!="}
    THEN NotOf(TestOf(PrimitiveOf(c), <<OperandOf(c.left), OperandOf(c.right)>>))
    ELSE TestOf(PrimitiveOf(c), <<OperandOf(c.left), OperandOf(c.right)>>)

\* what the variables hold when a test runs
Environments == [{1, 2} -> {2, 3, 4, 5, 6}]

ValueIn(o, env) == IF IsVar(o) THEN env[Numeral[o[1]]] ELSE Numeral[o[1]]

\* the test commands of the interpreter: the first parameter is a variable,
\* the second a number (n) or a variable (v)
CallHolds(call, env) ==
  CASE call.func = "equaln" -> env[call.params[1].value] = call.params[2].value
    [] call.func = "equalv" -> env[call.params[1].value] = env[call.params[2].value]
    [] call.func = "greatern" -> env[call.params[1].value] > call.params[2].value
    [] call.func = "greaterv" -> env[call.params[1].value] > env[call.params[2].value]
    [] call.func = "lessn" -> env[call.params[1].value] < call.params[2].value
    [] call.func = "lessv" -> env[call.params[1].value] < env[call.params[2].value]

TestHolds(test, env) ==
  IF test.type = "not" THEN ~CallHolds(test.operand, env) ELSE CallHolds(test, env)

Flag1 == Uint8("flag", 1)

\* a variable on one side at least, a number or a variable on the other
LoweredTo(statement, l, op, r) ==
  /\ error = NoError
  /\ statement = IfOf(TestFor(Canonical(l, op, r)),
                      CallOf("set", <<Flag1>>), CallOf("reset", <<Flag1>>))
  /\ \A env \in Environments :
       TestHolds(statement.condition, env) <=> Truth(op, ValueIn(l, env), ValueIn(r, env))

\* a number on both sides: the number 1 or 0, assigned to the variable, or
\* the flag set or reset
FoldedTo(statement, target, l, op, r) ==
  /\ error = NoError
  /\ statement =
       IF target = "v1"
         THEN CallOf("assignn",
                <<Uint8("variable", 1),
                  Uint8("number", IF Truth(op, Numeral[l[1]], Numeral[r[1]]) THEN 1 ELSE 0)>>)
       ELSE IF Truth(op, Numeral[l[1]], Numeral[r[1]]) THEN CallOf("set", <<Flag1>>)
       ELSE CallOf("reset", <<Flag1>>)

Refused ==
  /\ pc = "error"
  /\ statements = <<>>
  /\ error.message # ""
  /\ error.fileName = "main"
  /\ error.lineNumber = 1

ComparisonRead == statements # <<>> \/ error # NoError

Compared(line, l, op, r) ==
  IF (IsVar(l) /\ (IsVar(r) \/ IsNum(r))) \/ (IsNum(l) /\ IsVar(r))
    THEN LoweredTo(statements[1], l, op, r)
  ELSE IF IsNum(l) /\ IsNum(r) THEN FoldedTo(statements[1], line[1], l, op, r)
  ELSE Refused

\* C20: for each of the six comparators, a comparison of a variable with a
\* number or a variable is read as a test that holds exactly when the
\* comparison of the source holds: a number on the left goes to the right
\* with the mirrored comparator, then <=, >= and != are the not of greater,
\* less and equal, and the test is equaln, greatern or lessn when its right
\* operand is a number and equalv, greaterv or lessv when it is a variable;
\* a comparison of two numbers is read as the number 1 or 0 it comes to;
\* any other operand is refused with an error that names the file and line
C20_ComparisonsLowered ==
  ComparisonRead =>
    Compared(src[1], LeftOperand(src[1]), src[1][ComparatorAt(src[1])], RightOperand(src[1]))

\* 5 <= v1 is read as the not of lessn(v1, 5)
C20_Witness ==
  /\ src = << <<"f1", "=", "5", "<=", "v1", ";">> >>
  /\ statements # <<>>
  /\ statements[1] =
       IfOf(NotOf(TestOf("lessn", <<Uint8("variable", 1), Uint8("number", 5)>>)),
            CallOf("set", <<Flag1>>), CallOf("reset", <<Flag1>>))
----------------------------------------------------------------------------
(* Flag assignments (C21): a line 'f1 = expr ;' and the line                *)
(* 'if ( expr ) set ( f1 ) ; else reset ( f1 ) ;' through the parser and    *)
(* the generator.                                                          *)

AssignedExpressions ==
  {<<"!", "f1">>, <<"1">>, <<"0">>, <<"f2">>, <<"v1">>, <<"!", "f2">>, <<"!", "v1">>,
   <<"v1", "==", "5">>, <<"v1", "<=", "v2">>, <<"isset", "(", "f2", ")">>,
   <<"f2", "&&", "v1">>, <<"f2", "||", "f1">>, <<"v1", ">", "5", "&&", "f2">>,
   <<"5", ">", "3">>, <<"!", "1">>, <<"\"hi\"">>, <<"v1", "+">>}

AssignmentOf(expr) == <<"f1", "=">> \o expr \o <<";">>

IfStatementOf(expr) ==
  <<"if", "(">> \o expr
    \o <<")", "set", "(", "f1", ")", ";", "else", "reset", "(", "f1", ")", ";">>

FlagCodeLineKinds ==
  {AssignmentOf(expr) : expr \in AssignedExpressions}
    \cup {IfStatementOf(expr) : expr \in AssignedExpressions}

\* compile with the directive loop done on a source of one statement
InitFlagCode ==
  /\ src \in {<<line>> : line \in FlagCodeLineKinds}
  /\ tokenLines = TokenLinesOf("main", src)
  /\ line_i = Len(src) + 1
  /\ ifStack = <<>>
  /\ simpleMacros = NoMacros
  /\ pc = "done"
  /\ error = NoError
  /\ exprTokens = <<>>
  /\ exprResult = Value(0, <<>>)
  /\ NothingParsed
  /\ NoMessages
  /\ OneInvocation
  /\ NoFunctionCall

NextFlagCode ==
  \/ ReadStatement
  \/ EndOfStatements
  \/ EmitStatement
  \/ CheckUndefinedLabels
  \/ Return

SpecFlagCode == InitFlagCode /\ [][NextFlagCode]_vars

\* the generator as constructed
NewGenerator ==
  [buf |-> <<>>, labelPos |-> EmptyMap, labelPromises |-> {}, labelListeners |-> <<>>,
   settled |-> EmptyMap, complete |-> <<>>, err |-> ""]

Outcome(code, message) == [code |-> code, message |-> message]

\* what compile leaves for one statement with no goto: the error of the
\* parser or of the generator, or the code of the statement and of the
\* return appended to it
generated(g) ==
  IF g.err # "" THEN Outcome(NoBytecode, g.err)
  ELSE Outcome(pushStatement(CallOf("return", <<>>), g).buf, "")

compiledStatement(r) ==
  IF r.err # NoError THEN Outcome(NoBytecode, r.err.message)
  ELSE generated(pushStatement(hoistConditionalStatement(r.e), NewGenerator))

compiledLine(line) ==
  compiledStatement(readStatement(TokenStream(TokenLinesOf("main", <<line>>)), 1))

Finished == pc \in {"returned", "error"}

\* what this run of compile left
CompileLeft == Outcome(bytecode, error.message)

\* the expression of an assignment line
AssignedIn(line) == SubSeq(line, 3, Len(line) - 1)

\* toggle, set and reset of f1, each followed by the return
AssignedAs(expr) ==
  CASE expr = <<"!", "f1">> -> Outcome(<<14, 1, 0>>, "")
    [] expr = <<"1">> -> Outcome(<<12, 1, 0>>, "")
    [] expr = <<"0">> -> Outcome(<<13, 1, 0>>, "")
    [] OTHER -> compiledLine(IfStatementOf(expr))

\* C21: 'f1 = expr ;' compiles to toggle(f1) when expr is '! f1', to
\* set(f1) or reset(f1) when expr is 1 or 0, and for every other expr,
\* a bare flag or variable included, to the code that
\* 'if ( expr ) set ( f1 ) ; else reset ( f1 ) ;' compiles to
C21_FlagAssignmentAsIf ==
  Finished =>
    IF src[1][1] = "if" THEN CompileLeft = compiledLine(src[1])
    ELSE CompileLeft = AssignedAs(AssignedIn(src[1]))

\* the expressions that booleanify leaves as they are
HoldsNoBareValue(expr) ==
  \A k \in DOMAIN expr :
    expr[k] \in {"f1", "f2", "v1", "v2"} =>
      \/ k < Len(expr) /\ expr[k + 1] \in {"==", "<=", ">", ")"}
      \/ k > 1 /\ expr[k - 1] \in {"==", "<=", ">"}

\* the same for the expressions that hold no bare flag or variable, '! f1'
\* apart
FlagAssignmentOfTests ==
  Finished /\ src[1][1] # "if"
    /\ (AssignedIn(src[1]) = <<"!", "f1">> \/ HoldsNoBareValue(AssignedIn(src[1])))
    => CompileLeft = AssignedAs(AssignedIn(src[1]))
----------------------------------------------------------------------------
(* Hoisting called on statements and expressions that hold a conditional   *)
(* (C22, C23).  The parser reads no '?', so the trees are given to the     *)
(* functions as they are.                                                  *)

\* compile is not running
NoCompile ==
  /\ src = <<>>
  /\ tokenLines = <<>>
  /\ line_i = 1
  /\ ifStack = <<>>
  /\ simpleMacros = NoMacros
  /\ pc = "call"
  /\ error = NoError
  /\ exprTokens = <<>>
  /\ exprResult = Value(0, <<>>)
  /\ NothingParsed
  /\ NoMessages
  /\ OneInvocation

FlagTest(n) == TestOf("isset", <<Uint8("flag", n)>>)

\* 3 ? 1 : 2 over the tests of the flags
Ternary3 == ConditionalOf(FlagTest(3), FlagTest(1), FlagTest(2))

Shallow == {FlagTest(1), FlagTest(2), Ternary3}

CompoundOf(S) ==
  {NotOf(x) : x \in S}
    \cup {AndOf(<<x, y>>) : x \in S, y \in S}
    \cup {OrOf(<<x, y>>) : x \in S, y \in S}
    \cup {ConditionalOf(x, y, z) : x \in S, y \in S, z \in S}

HoistedExpressions ==
  Shallow \cup CompoundOf(Shallow)
    \cup {NotOf(x) : x \in CompoundOf(Shallow)}
    \cup {AndOf(<<FlagTest(2), x, FlagTest(1)>>) : x \in CompoundOf(Shallow)}
    \cup {OrOf(<<x, AndOf(<<FlagTest(1), FlagTest(3)>>)>>) : x \in CompoundOf(Shallow)}

Variable(n) == Uint8("variable", n)

\* the parameters of a call: a value, a ternary of values, a sum with a
\* ternary, and ternaries in the condition or in a branch of a ternary
HoistedParams ==
  {Variable(1),
   ConditionalOf(FlagTest(1), Variable(1), Variable(2)),
   [type |-> "math", operator |-> "+",
    operands |-> <<Variable(1), ConditionalOf(FlagTest(1), Variable(2), Variable(3))>>],
   ConditionalOf(Ternary3, Variable(1), Variable(2)),
   ConditionalOf(FlagTest(1), ConditionalOf(FlagTest(2), Variable(1), Variable(2)),
                 Variable(3))}

HoistedStatements ==
  {IfOf(x, Increment, NoStatement) : x \in HoistedExpressions}
    \cup {IfOf(x, Increment, CallOf("increment", <<p>>)) :
            x \in Shallow, p \in HoistedParams}
    \cup {WhileOf(x, Increment) : x \in CompoundOf(Shallow)}
    \cup {DoOf(Increment, x) : x \in CompoundOf(Shallow)}
    \cup {CallOf("increment", <<p>>) : p \in HoistedParams}
    \cup {CallOf("word.sample", <<p, q>>) : p \in HoistedParams, q \in HoistedParams}
    \cup {BlockOf(<<Increment, CallOf("increment", <<p>>), IfOf(x, Increment, NoStatement)>>) :
            p \in HoistedParams, x \in Shallow}

FunctionCall(fn, arg) == [fn |-> fn, arg |-> arg]

HoistCalls ==
  {FunctionCall("hoistConditionalStatement", x) : x \in HoistedStatements}
    \cup {FunctionCall(fn, x) :
            fn \in {"hoistConditionalExpression", "negateCondition",
                    "flattenHoistedConditional"},
            x \in HoistedExpressions}

InitHoist ==
  /\ NoCompile
  /\ fnArgs \in HoistCalls
  /\ fnResult = NotReturned

\* the function named is called and returns
Called(fn) == fnArgs.fn = fn /\ ~fnResult.returned

Returns(value) ==
  /\ fnResult' = ReturnedValue(value)
  /\ UNCHANGED <<pc, error, ppVars, exprVars, genVars, msgVars, other, sharedMacros, fnArgs>>

HoistConditionalStatement ==
  Called("hoistConditionalStatement") /\ Returns(hoistConditionalStatement(fnArgs.arg))

HoistConditionalExpression ==
  Called("hoistConditionalExpression") /\ Returns(hoistConditionalExpression(fnArgs.arg))

NegateCondition == Called("negateCondition") /\ Returns(negateCondition(fnArgs.arg))

FlattenHoistedConditional ==
  Called("flattenHoistedConditional") /\ Returns(flattenHoistedConditional(fnArgs.arg))

NextHoist ==
  \/ HoistConditionalStatement
  \/ HoistConditionalExpression
  \/ NegateCondition
  \/ FlattenHoistedConditional

SpecHoist == InitHoist /\ [][NextHoist]_vars

RECURSIVE HasConditional(_)
\* a Conditional node in a statement or an expression, at any depth
HasConditional(node) ==
  CASE node.type = "conditional" -> TRUE
    [] node.type \in {"and", "or", "math"} ->
         \E k \in DOMAIN node.operands : HasConditional(node.operands[k])
    [] node.type = "not" -> HasConditional(node.operand)
    [] node.type = "call" -> \E k \in DOMAIN node.params : HasConditional(node.params[k])
    [] node.type = "block" -> \E k \in DOMAIN node.body : HasConditional(node.body[k])
    [] node.type = "if" ->
         \/ HasConditional(node.condition)
         \/ HasConditional(node.thenDo)
         \/ HasConditional(node.elseDo)
    [] node.type = "while" -> HasConditional(node.condition) \/ HasConditional(node.doThis)
    [] node.type = "do" -> HasConditional(node.condition) \/ HasConditional(node.body)
    [] OTHER -> FALSE

HoistedStatement == fnArgs.fn = "hoistConditionalStatement" /\ fnResult.returned

RECURSIVE Conditionals(_)
\* how many Conditional nodes a tree holds
Conditionals(node) ==
  CASE node.type = "conditional" ->
         1 + Conditionals(node.condition) + Conditionals(node.thenValue)
           + Conditionals(node.elseValue)
    [] node.type \in {"and", "or", "math"} ->
         SumOver(Conditionals, node.operands, Len(node.operands) + 1)
    [] node.type = "not" -> Conditionals(node.operand)
    [] node.type = "call" -> SumOver(Conditionals, node.params, Len(node.params) + 1)
    [] node.type = "block" -> SumOver(Conditionals, node.body, Len(node.body) + 1)
    [] node.type = "if" ->
         Conditionals(node.condition) + Conditionals(node.thenDo)
           + Conditionals(node.elseDo)
    [] node.type = "while" -> Conditionals(node.condition) + Conditionals(node.doThis)
    [] node.type = "do" -> Conditionals(node.condition) + Conditionals(node.body)
    [] OTHER -> 0

\* the same for the statements that hold one ternary at most
NoConditionalLeftOfOne ==
  HoistedStatement /\ Conditionals(fnArgs.arg) <= 1 => ~HasConditional(fnResult.value)

\* the truth assignments to the tests of the three flags
Assignments == [1..3 -> BOOLEAN]

RECURSIVE TruthOf(_, _)
\* the truth value of a condition under an assignment
TruthOf(expr, tests) ==
  CASE expr.type = "call" -> tests[expr.params[1].value]
    [] expr.type = "not" -> ~TruthOf(expr.operand, tests)
    [] expr.type = "and" -> \A k \in DOMAIN expr.operands : TruthOf(expr.operands[k], tests)
    [] expr.type = "or" -> \E k \in DOMAIN expr.operands : TruthOf(expr.operands[k], tests)
    [] expr.type = "conditional" ->
         IF TruthOf(expr.condition, tests) THEN TruthOf(expr.thenValue, tests)
         ELSE TruthOf(expr.elseValue, tests)

SameTruth(x, y) == \A tests \in Assignments : TruthOf(x, tests) <=> TruthOf(y, tests)

OppositeTruth(x, y) == \A tests \in Assignments : TruthOf(x, tests) <=> ~TruthOf(y, tests)

\* Or(And(cond, ...), And(negation of cond, ...))
OrOfTwoAnds(cond, x) ==
  /\ x.type = "or"
  /\ Len(x.operands) = 2
  /\ x.operands[1].type = "and"
  /\ x.operands[2].type = "and"
  /\ SameTruth(x.operands[1].operands[1], cond)
  /\ OppositeTruth(x.operands[2].operands[1], cond)

\* C23: under every truth assignment to the tests,
\* flattenHoistedConditional(cond ? t : e) is an Or of two Ands, of cond
\* and of its negation, that has the truth value of cond ? t : e,
\* negateCondition(x) has the truth value of the negation of x, and
\* hoistConditionalExpression(x) has the truth value of x
C23_HoistingKeepsTruth ==
  fnResult.returned =>
    CASE fnArgs.fn = "flattenHoistedConditional" ->
           /\ SameTruth(fnResult.value, fnArgs.arg)
           /\ fnArgs.arg.type = "conditional" =>
                OrOfTwoAnds(fnArgs.arg.condition, fnResult.value)
      [] fnArgs.fn = "negateCondition" -> OppositeTruth(fnResult.value, fnArgs.arg)
      [] fnArgs.fn = "hoistConditionalExpression" -> SameTruth(fnResult.value, fnArgs.arg)
      [] OTHER -> TRUE

\* 3 ? 1 : 2 is flattened to (3 and 1) or (not 3 and 2)
C23_Witness ==
  /\ fnArgs = FunctionCall("flattenHoistedConditional", Ternary3)
  /\ fnResult.returned
  /\ fnResult.value =
       OrOf(<<AndOf(<<FlagTest(3), FlagTest(1)>>),
              AndOf(<<NotOf(FlagTest(3)), FlagTest(2)>>)>>)
----------------------------------------------------------------------------
(* Termination of macro expansion (C24).                                   *)

\* C24: macro expansion always ends: neither the substitution scan of a
\* line that is no directive nor the pushback loop of an #if or #elif
\* expression runs for ever, whatever the macros, a macro whose tokens hold
\* its own name and macros that name each other included
C24_ExpansionTerminates == pc # "hang"

\* the scan of a line ends when no macro leads back to itself
RECURSIVE Reaches(_, _, _, _)
Reaches(macros, from, name, fuel) ==
  /\ fuel > 0
  /\ from \in DOMAIN macros
  /\ \E k \in DOMAIN macros[from] :
       \/ macros[from][k] = name
       \/ Reaches(macros, macros[from][k], name, fuel - 1)

Cyclic(macros) ==
  \E name \in DOMAIN macros : Reaches(macros, name, name, Cardinality(DOMAIN macros))

ExpansionOfAcyclicTerminates == pc = "hang" => Cyclic(simpleMacros)
----------------------------------------------------------------------------
(* The directives as one loop (C25): every case of the switch, #pragma and *)
(* #error with them.                                                       *)

\* the names pragmaHandlers has a handler for; each handler does nothing
PragmaNames == {"message", "item", "word"}

\* case 'pragma': the handler is called and the line is left as it is
DirectivePragma ==
  /\ Directive({"pragma"})
  /\ IF Len(CurrentLine.tokens) < 3 \/ ~isKeywordToken(TokenAt(CurrentLine.tokens, 3))
       THEN /\ Throw(LineSyntaxError(CurrentLine, "invalid #pragma directive"))
            /\ UNCHANGED line_i
     ELSE IF CurrentLine.tokens[3] \notin PragmaNames
       THEN /\ Throw(LineSyntaxError(CurrentLine,
                       "unknown #pragma: " \o CurrentLine.tokens[3]))
            /\ UNCHANGED line_i
     ELSE /\ line_i' = line_i + 1
          /\ UNCHANGED <<pc, error>>
  /\ UNCHANGED <<src, tokenLines, ifStack, simpleMacros, exprVars, genVars, msgVars,
                 callVars>>

\* case 'error': the message is the text of the line after '#error', here
\* its tokens with a space between them
DirectiveError ==
  /\ Directive({"error"})
  /\ Throw(LineSyntaxError(CurrentLine,
       JoinNames(SubSeq(CurrentLine.tokens, 3, Len(CurrentLine.tokens)), " ")))
  /\ UNCHANGED <<ppVars, exprVars, genVars, msgVars, callVars>>

\* longest file of directives
MaxDirectiveLines == 3

DirectiveLineKinds ==
  {<<"#", "define", "X", "a">>, <<"#", "undef", "X">>, <<"#", "ifdef", "X">>,
   <<"#", "ifndef", "X">>, <<"#", "if", "0">>, <<"#", "elif", "1">>, <<"#", "else">>,
   <<"#", "endif">>, <<"#", "message", "1", "\"hi\"">>, <<"#", "word", "1", "\"hi\"">>,
   <<"#", "item", "1", "\"hi\"">>, <<"#", "include", "\"c\"">>,
   <<"#", "include", "\"s/b\"">>, <<"#", "pragma", "message">>, <<"#", "pragma", "X">>,
   <<"#", "pragma">>, <<"#", "error", "a", "b">>, <<"#", "b">>, <<"#", "5">>, <<"#">>,
   <<"X", "b">>}

\* compile at the head of the directive loop
InitDirectives ==
  /\ src \in SeqsUpTo(DirectiveLineKinds, MaxDirectiveLines)
  /\ tokenLines = TokenLinesOf(Path, src)
  /\ line_i = 1
  /\ ifStack = <<>>
  /\ simpleMacros = NoMacros
  /\ pc = "scan"
  /\ error = NoError
  /\ exprTokens = <<>>
  /\ exprResult = Value(0, <<>>)
  /\ NothingParsed
  /\ NoMessages
  /\ OneInvocation
  /\ NoFunctionCall

NextDirectives ==
  \/ DirectiveInclude
  \/ DirectiveDefine
  \/ DirectiveError
  \/ DirectivePragma
  \/ DirectiveUndef
  \/ DirectiveIf
  \/ DirectiveElse
  \/ DirectiveEndif
  \/ DirectiveMessage
  \/ DirectiveWord
  \/ DirectiveItem
  \/ DirectiveDefault
  \/ MacroSubstitution
  \/ EndOfInput

SpecDirectives == InitDirectives /\ [][NextDirectives]_vars

\* the lines that still begin with '#'
DirectivesLeft == {k \in DOMAIN tokenLines : IsDirectiveLine(tokenLines[k])}

\* the loop is at a line that begins with '#' and goes on with no known
\* directive keyword
AtUnknownDirective ==
  /\ Scanning
  /\ IsDirectiveLine(CurrentLine)
  /\ TokenAt(CurrentLine.tokens, 2) \notin DirectiveKeywords

\* C25: when the directive loop ends without an error no line of the
\* token stream begins with '#': every directive line was executed and
\* emptied, whatever its keyword, #pragma included; and a line that begins
\* with '#' and goes on with no known directive keyword is a fatal error
C25_NoDirectiveLeft ==
  [][/\ pc' = "done" => DirectivesLeft' = {}
     /\ AtUnknownDirective => pc' = "error"]_vars

\* the same with the lines of an accepted #pragma left in the stream
OnlyPragmasLeft ==
  [][/\ pc' = "done" =>
          \A k \in DirectivesLeft' :
            /\ tokenLines'[k].tokens[2] = "pragma"
            /\ tokenLines'[k].tokens[3] \in PragmaNames
     /\ AtUnknownDirective => pc' = "error"]_vars

\* ----------------------------------------------------------------------------
\* Chains of && and || read by readExpression
\* ----------------------------------------------------------------------------

MaxChainOperators == 3

ChainOperands == {"0", "1", "f1", "f2"}

ChainOperators == {"&&", "||"}

\* operand (operator operand)* ;
ChainOf(operands, operators) ==
  [k \in 1..(2 * Len(operands)) |->
     IF k = 2 * Len(operands) THEN ";"
     ELSE IF k % 2 = 1 THEN operands[(k + 1) \div 2]
     ELSE operators[k \div 2]]

Chains ==
  UNION {{ChainOf(operands, operators) :
            operands \in [1..(n + 1) -> ChainOperands],
            operators \in [1..n -> ChainOperators]} : n \in 1..MaxChainOperators}

InitChains ==
  /\ NoCompile
  /\ fnArgs \in {FunctionCall("readExpression", tokens) : tokens \in Chains}
  /\ fnResult = NotReturned

\* readExpression() on the tokens of one line of the file
ReadExpression ==
  /\ Called("readExpression")
  /\ Returns(readExpression(TokenStream(TokenLinesOf(Path, <<fnArgs.arg>>)), 1, 0))

NextChains == ReadExpression

SpecChains == InitChains /\ [][NextChains]_vars

ChainOperandsOf(tokens) == [k \in 1..(Len(tokens) \div 2) |-> tokens[2 * k - 1]]

ChainOperatorsOf(tokens) == {tokens[2 * k] : k \in 1..((Len(tokens) \div 2) - 1)}

SameOperator(tokens) == Cardinality(ChainOperatorsOf(tokens)) = 1

OperatorOf(tokens) == tokens[2]

IsLiteral(token) == token \in {"0", "1"}

NotLiteral(token) == ~IsLiteral(token)

OperandNode(token) ==
  IF IsLiteral(token) THEN Uint8("number", decodeIntegerLiteral(token)) ELSE valueOf(token)

OperandNodes(operands) == [k \in DOMAIN operands |-> OperandNode(operands[k])]

\* the node of a chain of one operator, by the folding rules
FoldedChain(operator, operands) ==
  LET absorbing == IF operator = "&&" THEN "0" ELSE "1"
      kept == SelectSeq(operands, NotLiteral)
  IN  IF \E k \in DOMAIN operands : operands[k] = absorbing
        THEN OperandNode(absorbing)
      ELSE IF kept = <<>> THEN OperandNode(IF operator = "&&" THEN "1" ELSE "0")
      ELSE IF Len(kept) = 1 THEN OperandNode(kept[1])
      ELSE IF operator = "&&" THEN AndOf(OperandNodes(kept))
      ELSE OrOf(OperandNodes(kept))

ChainRead == fnArgs.fn = "readExpression" /\ fnResult.returned

\* C26: a chain of one operator, && or ||, is read as one node of all its
\* operands with the constants folded: a literal 0 makes an && chain 0 and
\* leaves an || chain, a literal 1 makes an || chain 1 and leaves an &&
\* chain, one operand left stands for the chain, and none left gives 1 for
\* && and 0 for ||.
C26_ChainsFolded ==
  (ChainRead /\ SameOperator(fnArgs.arg)) =>
     /\ fnResult.value.err = NoError
     /\ fnResult.value.e =
          FoldedChain(OperatorOf(fnArgs.arg), ChainOperandsOf(fnArgs.arg))

\* `1 && f1 && f2 ;` was read: the literal is dropped and one node of the two
\* flags is left
C26_Witness ==
  /\ ChainRead
  /\ fnArgs.arg = <<"1", "&&", "f1", "&&", "f2", ";">>
  /\ fnResult.value.e = AndOf(<<valueOf("f1"), valueOf("f2")>>)

\* the chain with a variable in the place of each literal
Unfolded(tokens) ==
  [k \in DOMAIN tokens |-> IF IsLiteral(tokens[k]) THEN "v1" ELSE tokens[k]]

HasLiteral(tokens) == \E k \in DOMAIN tokens : IsLiteral(tokens[k])

ReadOf(tokens) == readExpression(TokenStream(TokenLinesOf(Path, <<tokens>>)), 1, 0)

\* C29: folding the constants of a chain changes neither whether the
\* expression is accepted nor how many tokens it takes: the chain is read up
\* to the same token as the chain with no constant operand, lower-precedence
\* operators after a folded part included.
C29_FoldingKeepsConsumption ==
  ChainRead =>
     /\ fnResult.value.err = ReadOf(Unfolded(fnArgs.arg)).err
     /\ fnResult.value.i = ReadOf(Unfolded(fnArgs.arg)).i

\* a chain of one operator is read up to its `;`, constants or not
FoldedToTheEnd ==
  (ChainRead /\ SameOperator(fnArgs.arg)) =>
     /\ fnResult.value.err = NoError
     /\ fnResult.value.i = Len(fnArgs.arg)

\* ----------------------------------------------------------------------------
\* The message tables under #message directives and message literals
\* ----------------------------------------------------------------------------

MaxMessageUseLines == 3

MessageUseLineKinds ==
  {<<"#", "message", "1", "\"hi\"">>, <<"#", "message", "1", "\"bye\"">>,
   <<"#", "message", "2", "\"hi\"">>, <<"#", "message", "3", "\"bye\"">>,
   <<"print", "(", "\"hi\"", ")", ";">>, <<"print", "(", "\"bye\"", ")", ";">>,
   <<"print", "(", "\"\"", ")", ";">>}

InitMessageUse ==
  /\ src \in SeqsUpTo(MessageUseLineKinds, MaxMessageUseLines)
  /\ tokenLines = TokenLinesOf("main", src)
  /\ line_i = 1
  /\ ifStack = <<>>
  /\ simpleMacros = NoMacros
  /\ pc = "scan"
  /\ error = NoError
  /\ exprTokens = <<>>
  /\ exprResult = Value(0, <<>>)
  /\ NothingParsed
  /\ NoMessages
  /\ OneInvocation
  /\ NoFunctionCall

NextMessageUse ==
  \/ DirectiveMessage
  \/ MacroSubstitution
  \/ EndOfInput
  \/ ReadStatement
  \/ EndOfStatements

SpecMessageUse == InitMessageUse /\ [][NextMessageUse]_vars

\* slot n of the message array holds the text
SlotHolds(n, text) == n + 1 <= Len(messages) /\ messages[n + 1] = text

\* C28: every entry text -> n of the message-number table has the text in
\* slot n of the message array, after any #message directives and uses of
\* message literals.
C28_NumbersNameTheirText ==
  \A text \in DOMAIN messageNumbers : SlotHolds(messageNumbers[text], text)

IsMessageDirective(line) == Len(line) = 4 /\ line[1] = "#"

\* two #message lines of the source give one number two texts
SlotRedeclared ==
  \E j, k \in DOMAIN src :
     /\ IsMessageDirective(src[j]) /\ IsMessageDirective(src[k])
     /\ src[j][3] = src[k][3] /\ src[j][4] # src[k][4]

\* the tables agree when no number is declared with two texts
NumbersNameTheirTextUnlessRedeclared == SlotRedeclared \/ C28_NumbersNameTheirText

\* ----------------------------------------------------------------------------
\* makePatch: the patch from one byte array to another
\* ----------------------------------------------------------------------------

MaxPatchLength == 3

PatchBytes == {1, 2}

ByteArrays == SeqsUpTo(PatchBytes, MaxPatchLength)

\* array[k] of a typed array, k counted from 0; undefined outside the array
Undefined == -1

ByteAt(array, k) == IF k >= 0 /\ k < Len(array) THEN array[k + 1] ELSE Undefined

\* array.subarray(begin, end) with 0 <= begin, end <= array.length
subarray(array, begin, end) == SubSeq(array, begin + 1, end)

\* prevRow[j-1] + 1 on a match, along the diagonal down to the first row or
\* column, where a match is 1
RECURSIVE RunLength(_, _, _, _)
RunLength(array1, array2, i, j) ==
  IF ByteAt(array1, i) # ByteAt(array2, j) THEN 0
  ELSE IF i = 0 \/ j = 0 THEN 1
  ELSE RunLength(array1, array2, i - 1, j - 1) + 1

MaxFoundLength(array1, array2) ==
  LET lengths == {RunLength(array1, array2, i, j) :
                    i \in 0..(Len(array1) - 1), j \in 0..(Len(array2) - 1)}
  IN  CHOOSE n \in lengths : \A other_n \in lengths : other_n <= n

\* results after the rows of array1 are passed in order, each from j = 0 on:
\* the runs of the greatest length, in the order they were found
scanned(array1, array2) ==
  LET found == MaxFoundLength(array1, array2)
      cells == [p \in 1..(Len(array1) * Len(array2)) |->
                  [i |-> (p - 1) \div Len(array2), j |-> (p - 1) % Len(array2)]]
      Longest(c) == found > 0 /\ RunLength(array1, array2, c.i, c.j) = found
      ends == SelectSeq(cells, Longest)
  IN  [k \in DOMAIN ends |-> <<ends[k].i + 1 - found, ends[k].j + 1 - found, found>>]

longestCommonSubarray(array1, array2) ==
  IF Len(array2) > Len(array1)
    THEN LET results == scanned(array2, array1)
         IN  [k \in DOMAIN results |-> <<results[k][2], results[k][1], results[k][3]>>]
  ELSE IF Len(array2) = 0 THEN <<>>
  ELSE IF array1 = array2 THEN <<<<0, 0, Len(array1)>>>>
  ELSE scanned(array1, array2)

Change(op, n) == [op |-> op, n |-> n]

BytesChange(op, bytes) == [op |-> op, bytes |-> bytes]

CopyRest == [op |-> "copy-rest"]

\* toBC[0] | (toBC[1] << 8)
Short(array) == array[1] + 256 * array[2]

\* the switch on toBC.length that inserts toBC
inserted(toBC) ==
  CASE Len(toBC) = 1 -> Change("insert-byte", toBC[1])
    [] Len(toBC) = 2 -> Change("insert-short", Short(toBC))
    [] OTHER -> BytesChange("insert", toBC)

\* splitPatch with no common subarray
unmatched(fromBC, toBC, changes) ==
  IF Len(toBC) >= Len(fromBC)
    THEN IF Len(toBC) = Len(fromBC) /\ Len(toBC) = 1
           THEN Append(changes, Change("add-byte", toBC[1] - fromBC[1]))
         ELSE IF Len(toBC) = Len(fromBC) /\ Len(toBC) = 2
           THEN Append(changes, Change("add-short", Short(toBC) - Short(fromBC)))
         ELSE IF Len(toBC) > Len(fromBC)
           THEN changes \o <<BytesChange("overwrite", toBC),
                             Change("skip", Len(toBC) - Len(fromBC))>>
         ELSE Append(changes, BytesChange("overwrite", toBC))
  ELSE changes \o <<inserted(toBC), Change("skip", Len(fromBC))>>

RECURSIVE splitPatch(_, _, _)
splitAt(fromBC, toBC, changes, longest) ==
  splitPatch(subarray(fromBC, longest[1] + longest[3], Len(fromBC)),
             subarray(toBC, longest[2] + longest[3], Len(toBC)),
             Append(splitPatch(subarray(fromBC, 0, longest[1]),
                               subarray(toBC, 0, longest[2]), changes),
                    Change("copy", longest[3])))

splitPatch(fromBC, toBC, changes) ==
  IF Len(fromBC) = 0
    THEN IF Len(toBC) = 0 THEN changes ELSE Append(changes, inserted(toBC))
  ELSE IF Len(toBC) = 0 THEN Append(changes, Change("skip", Len(fromBC)))
  ELSE IF longestCommonSubarray(fromBC, toBC) = <<>> THEN unmatched(fromBC, toBC, changes)
  ELSE splitAt(fromBC, toBC, changes, longestCommonSubarray(fromBC, toBC)[1])

\* while (fromBC[i] === toBC[i]) i++
RECURSIVE commonPrefix(_, _, _)
commonPrefix(fromBC, toBC, i) ==
  IF ByteAt(fromBC, i) = ByteAt(toBC, i) THEN commonPrefix(fromBC, toBC, i + 1) ELSE i

\* while (fromBC[fromBC.length - (j + 1)] === toBC[toBC.length - (j + 1)]) j++
RECURSIVE commonSuffix(_, _, _)
commonSuffix(fromBC, toBC, j) ==
  IF ByteAt(fromBC, Len(fromBC) - (j + 1)) = ByteAt(toBC, Len(toBC) - (j + 1))
    THEN commonSuffix(fromBC, toBC, j + 1)
  ELSE j

\* the changes returned, with the locals i, j, fromBC and toBC at the return
Patched(changes, i, j, fromBC, toBC) ==
  [changes |-> changes, i |-> i, j |-> j, fromBC |-> fromBC, toBC |-> toBC]

trimmedPatch(fromBC, toBC, i, j) ==
  Patched((IF i # 0 THEN <<Change("copy", i)>> ELSE <<>>)
             \o splitPatch(subarray(fromBC, i, Len(fromBC) - j),
                           subarray(toBC, i, Len(toBC) - j), <<>>)
             \o (IF j # 0 THEN <<CopyRest>> ELSE <<>>),
          i, j,
          subarray(fromBC, i, Len(fromBC) - j), subarray(toBC, i, Len(toBC) - j))

makePatch(fromBC, toBC) ==
  IF fromBC = toBC THEN Patched(<<CopyRest>>, 0, 0, fromBC, toBC)
  ELSE trimmedPatch(fromBC, toBC, commonPrefix(fromBC, toBC, 0),
                    commonSuffix(fromBC, toBC, 0))

InitPatch ==
  /\ NoCompile
  /\ fnArgs \in {FunctionCall("makePatch", <<fromBC, toBC>>) :
                   fromBC \in ByteArrays, toBC \in ByteArrays}
  /\ fnResult = NotReturned

MakePatch == Called("makePatch") /\ Returns(makePatch(fnArgs.arg[1], fnArgs.arg[2]))

NextPatch == MakePatch

SpecPatch == InitPatch /\ [][NextPatch]_vars

PatchMade == fnArgs.fn = "makePatch" /\ fnResult.returned

Shorter(a, b) == IF Len(a) <= Len(b) THEN Len(a) ELSE Len(b)

\* C30: the common prefix and the common suffix makePatch trims do not
\* overlap, i + j <= min(from.length, to.length), and the middle sections it
\* hands to splitPatch are what is left of either array between the two.
C30_TrimsDoNotOverlap ==
  PatchMade =>
     /\ fnResult.value.i + fnResult.value.j <= Shorter(fnArgs.arg[1], fnArgs.arg[2])
     /\ Len(fnResult.value.fromBC)
          = Len(fnArgs.arg[1]) - fnResult.value.i - fnResult.value.j
     /\ Len(fnResult.value.toBC)
          = Len(fnArgs.arg[2]) - fnResult.value.i - fnResult.value.j

\* either trim alone stays within the shorter array
EachTrimFits ==
  PatchMade =>
     /\ fnResult.value.i <= Shorter(fnArgs.arg[1], fnArgs.arg[2])
     /\ fnResult.value.j <= Shorter(fnArgs.arg[1], fnArgs.arg[2])

\* ----------------------------------------------------------------------------
\* compileDictionary and the reader of words.tok, DataStore.getDictionary
\* ----------------------------------------------------------------------------

MaxWordLength == 2
MaxWords == 3

\* 'a' and 'b'
WordChars == {97, 98}

WordCodes == {1, 258}

DictWords == SeqsUpTo(WordChars, MaxWordLength)

\* the maps of up to MaxWords words to their codes
Dictionaries ==
  UNION {[W -> WordCodes] : W \in {V \in SUBSET DictWords : Cardinality(V) <= MaxWords}}

\* a < b by UTF-16 code units, the order of Array.prototype.sort()
WordBefore(a, b) ==
  \E k \in 1..(Len(b)) :
     /\ \A j \in 1..(k - 1) : j <= Len(a) /\ a[j] = b[j]
     /\ k > Len(a) \/ a[k] < b[k]

\* [...dict.keys()].sort()
sortedKeys(dict) ==
  CHOOSE words \in [1..Cardinality(DOMAIN dict) -> DOMAIN dict] :
    \A j, k \in DOMAIN words : j < k => WordBefore(words[j], words[k])

\* while (shared < word.length && shared < lastWord.length
\*        && word[shared] === lastWord[shared]) shared++
RECURSIVE sharedFrom(_, _, _)
sharedFrom(word, lastWord, shared) ==
  IF shared < Len(word) /\ shared < Len(lastWord) /\ word[shared + 1] = lastWord[shared + 1]
    THEN sharedFrom(word, lastWord, shared + 1)
  ELSE shared

\* buf.writeUInt16BE(value) of a value below 65536
UInt16BE(value) == <<value \div 256, value % 256>>

\* charCode ^ 0x7f of a code below 128
Xor7F(charCode) == 127 - charCode

\* byte | 0x80
Or80(byte) == IF byte >= 128 THEN byte ELSE byte + 128

toLowerCase(charCode) == IF charCode \in 65..90 THEN charCode + 32 ELSE charCode

\* alphabetOffsets.writeUInt16BE(pos, letter*2), when the first letter of the
\* word is one of the 26
offsetWritten(alphabetOffsets, word, pos) ==
  IF word # <<>> /\ toLowerCase(word[1]) - 97 >= 0 /\ toLowerCase(word[1]) - 97 < 26
    THEN [k \in DOMAIN alphabetOffsets |->
            IF k = 2 * (toLowerCase(word[1]) - 97) + 1 THEN UInt16BE(pos)[1]
            ELSE IF k = 2 * (toLowerCase(word[1]) - 97) + 2 THEN UInt16BE(pos)[2]
            ELSE alphabetOffsets[k]]
  ELSE alphabetOffsets

\* wordBuf: the shared count, the rest of the word, and the code; 0x80 is set
\* on the byte before the code
wordBufOf(word, shared, code) ==
  [k \in 1..(1 + (Len(word) - shared) + 2) |->
     IF k > 1 + (Len(word) - shared) THEN UInt16BE(code)[k - (1 + (Len(word) - shared))]
     ELSE IF k = 1 + (Len(word) - shared)
       THEN Or80(IF k = 1 THEN shared ELSE Xor7F(word[shared + k - 1]))
     ELSE IF k = 1 THEN shared
     ELSE Xor7F(word[shared + k - 1])]

\* the for loop over words from word_i on; pos is the length of what is
\* written so far
RECURSIVE wordsCompiled(_, _, _, _, _, _)
wordsCompiled(dict, words, word_i, alphabetOffsets, entries, lastWord) ==
  IF word_i > Len(words) THEN alphabetOffsets \o entries \o <<0>>
  ELSE wordsCompiled(dict, words, word_i + 1,
         IF sharedFrom(words[word_i], lastWord, 0) = 0
           THEN offsetWritten(alphabetOffsets, words[word_i],
                              Len(alphabetOffsets) + Len(entries))
         ELSE alphabetOffsets,
         entries \o wordBufOf(words[word_i], sharedFrom(words[word_i], lastWord, 0),
                              dict[words[word_i]]),
         words[word_i])

compileDictionary(dict) ==
  wordsCompiled(dict, sortedKeys(dict), 1, [k \in 1..(26 * 2) |-> 0], <<>>, <<>>)

\* lastWord.slice(0, n)
slice(word, n) == SubSeq(word, 1, IF n < Len(word) THEN n ELSE Len(word))

Decoded(wordIds, wordsById) == [wordIds |-> wordIds, wordsById |-> wordsById, threw |-> FALSE]

\* readUInt16BE past the end of the data
RangeErrorThrown == [wordIds |-> EmptyMap, wordsById |-> EmptyMap, threw |-> TRUE]

\* do word += String.fromCharCode(0x7f ^ (data[pos] & 0x7f))
\* while (!(data[pos++] & 0x80) && pos < data.length)
RECURSIVE charsRead(_, _, _)
charsRead(data, pos, word) ==
  IF data[pos + 1] < 128 /\ pos + 1 < Len(data)
    THEN charsRead(data, pos + 1, Append(word, 127 - (data[pos + 1] % 128)))
  ELSE [word |-> Append(word, 127 - (data[pos + 1] % 128)), pos |-> pos + 1]

\* wordsById after the word is filed under its number
filed(wordsById, wordNum, word) ==
  IF wordNum \in DOMAIN wordsById
    THEN [wordsById EXCEPT ![wordNum] = Append(@, word)]
  ELSE (wordNum :> <<word>>) @@ wordsById

RECURSIVE entriesRead(_, _, _, _, _)
entryRead(data, r, wordIds, wordsById) ==
  IF r.pos >= Len(data) THEN Decoded(wordIds, wordsById)
  ELSE IF r.pos + 2 > Len(data) THEN RangeErrorThrown
  ELSE entriesRead(data, r.pos + 2, r.word,
                   (r.word :> (256 * data[r.pos + 1] + data[r.pos + 2])) @@ wordIds,
                   filed(wordsById, 256 * data[r.pos + 1] + data[r.pos + 2], r.word))

\* the while loop from pos on
entriesRead(data, pos, lastWord, wordIds, wordsById) ==
  IF pos + 4 > Len(data) THEN Decoded(wordIds, wordsById)
  ELSE entryRead(data, charsRead(data, pos + 1, slice(lastWord, data[pos + 1])),
                 wordIds, wordsById)

getDictionary(data) == entriesRead(data, data[2], <<>>, EmptyMap, EmptyMap)

InitDictionary ==
  /\ NoCompile
  /\ fnArgs \in {FunctionCall("compileDictionary", dict) : dict \in Dictionaries}
  /\ fnResult = NotReturned

CompileDictionary ==
  Called("compileDictionary") /\ Returns(compileDictionary(fnArgs.arg))

\* the buffer compileDictionary returned is read as words.tok
GetDictionary ==
  /\ fnArgs.fn = "compileDictionary" /\ fnResult.returned
  /\ fnArgs' = FunctionCall("getDictionary", fnResult.value)
  /\ fnResult' = ReturnedValue(getDictionary(fnResult.value))
  /\ UNCHANGED <<pc, error, ppVars, exprVars, genVars, msgVars, other, sharedMacros>>

NextDictionary == CompileDictionary \/ GetDictionary

SpecDictionary == InitDictionary /\ [][NextDictionary]_vars

\* the entry of a word after lastWord, as the format describes it
FrontCoded(word, lastWord, code) ==
  <<sharedFrom(word, lastWord, 0)>>
    \o [k \in 1..(Len(word) - sharedFrom(word, lastWord, 0)) |->
          IF k = Len(word) - sharedFrom(word, lastWord, 0)
            THEN 128 + (127 - word[sharedFrom(word, lastWord, 0) + k])
          ELSE 127 - word[sharedFrom(word, lastWord, 0) + k]]
    \o <<code \div 256, code % 256>>

\* C27: the dictionary that compileDictionary writes, read by getDictionary,
\* gives back the map of words to codes it was written from.
C27_DictionaryRoundTrips ==
  [][GetDictionary =>
       /\ ~fnResult'.value.threw
       /\ fnResult'.value.wordIds = fnArgs.arg]_vars

HasWordOfA(dict) == \E word \in DOMAIN dict : word # <<>> /\ word[1] = 97

\* a map with a word in `a` and without the empty word is read back; so is
\* the empty map
RoundTripsWithWordOfA ==
  [][(GetDictionary
        /\ (fnArgs.arg = EmptyMap \/ (HasWordOfA(fnArgs.arg) /\ <<>> \notin DOMAIN fnArgs.arg)))
       => /\ ~fnResult'.value.threw
          /\ fnResult'.value.wordIds = fnArgs.arg]_vars

\* the entries of nonempty words are laid out as the format describes
EntriesFrontCoded ==
  (fnArgs.fn = "compileDictionary" /\ fnResult.returned /\ <<>> \notin DOMAIN fnArgs.arg)
    => LET words == sortedKeys(fnArgs.arg)
           entryOf(k) == FrontCoded(words[k], IF k = 1 THEN <<>> ELSE words[k - 1],
                                    fnArgs.arg[words[k]])
           RECURSIVE joined(_)
           joined(k) == IF k > Len(words) THEN <<>> ELSE entryOf(k) \o joined(k + 1)
       IN  SubSeq(fnResult.value, 53, Len(fnResult.value)) = joined(1) \o <<0>>

====
